---- MODULE Spec2Model ----
(***************************************************************************)
(* A model of the Pintos file-system core of this repository: the indexed  *)
(* inode store (filesys/inode.c), the free map (filesys/free-map.c), the   *)
(* open-inode list and the buffer cache (filesys/cache.c).                 *)
(*                                                                         *)
(* Units.  File offsets and sizes are counted in 4-byte words, so that a   *)
(* sector holds NUM_PER_SECTOR words and an index sector holds one sector  *)
(* number per word, as in the source.  The sector size is scaled down.     *)
(*                                                                         *)
(* Specification Spec is the inode layer with one caller at a time: every  *)
(* action is one whole call of the inode API, and the buffer cache is seen *)
(* through its sequential contract (a read returns what was last written   *)
(* or added).  The directory layer appears only as the set "linked" of     *)
(* inumbers that currently have a directory entry.                         *)
(*                                                                         *)
(* Specification SpecCache is the buffer cache with its threads, one       *)
(* statement at a time; specification SpecOpen is inode_open and           *)
(* inode_close called by several threads.                                  *)
(*                                                                         *)
(* Specification SpecDir is the directory layer (filesys/directory.c and   *)
(* filesys.c) with one caller at a time, directory entries stored through  *)
(* inode_read_at and inode_write_at.  Specifications SpecLen and SpecRace  *)
(* are threads inside inode_write_at and inside filesys_create and         *)
(* filesys_remove; specification SpecDeny is the openers of one file with  *)
(* inode_deny_write and inode_allow_write; specification SpecFix is        *)
(* threads inside byte_to_sector.  Specifications SpecClock and SpecShare  *)
(* are the buffer cache with its whole interface: one caller with the      *)
(* three priorities, and two callers with the flush thread.                *)
(*                                                                         *)
(* Specifications SpecEvict and SpecFlush are the buffer cache with        *)
(* eviction under a full table and with the periodic flush pass;           *)
(* specification SpecLive is the same cache under weak fairness of every   *)
(* thread.  Specification SpecAlloc is threads inside free_map_allocate    *)
(* and free_map_release, specification SpecInum is threads inside          *)
(* inode_assign_inumber, specification SpecRelease is the last close of a  *)
(* removed inode one release at a time, and specification SpecFd is the    *)
(* file-descriptor list of one process under the file system calls.        *)
(***************************************************************************)
EXTENDS Integers, Sequences, FiniteSets, TLC

(***************************************************************************)
(* Geometry                                                                *)
(***************************************************************************)
SID_INDEX == 5
DID_INDEX == 7
MAX_INDEX == 8
ROOT_DIR_INUMBER == 0

\* Words (sector numbers) per sector; 128 in the source.
NUM_PER_SECTOR == 2
\* Sectors of the inode table; 100 in the source.
INODE_TABLE_SECTORS == 1
\* Inode-table entries per sector; 12 in the source.
INODES_PER_SECTOR == 2       \* 12 in the source
\* Sectors of the device behind the inode table and the free map.
PoolSectors == 6
\* Largest size of one read or write, in words.
MaxIO == 2
\* Number of inode_write_at calls in one behaviour.
MaxWrites == 2
\* Largest open count of one inode.
MaxOpen == 2

BLOCK_SECTOR_SIZE == NUM_PER_SECTOR
DIRECT_LIMIT == SID_INDEX
SID_LIMIT == DIRECT_LIMIT + (DID_INDEX - SID_INDEX) * NUM_PER_SECTOR
DID_LIMIT == SID_LIMIT + (MAX_INDEX - DID_INDEX) * NUM_PER_SECTOR * NUM_PER_SECTOR

\* One bit per sector, 32 bits per word.
bit_cnt == INODE_TABLE_SECTORS + 1 + PoolSectors
num_sectors == (bit_cnt + 32 * BLOCK_SECTOR_SIZE - 1) \div (32 * BLOCK_SECTOR_SIZE)
Reserved == INODE_TABLE_SECTORS + num_sectors

Sectors == 0 .. bit_cnt - 1
PoolSecs == Reserved .. bit_cnt - 1
Inums == 0 .. INODE_TABLE_SECTORS * INODES_PER_SECTOR - 1

\* (block_sector_t) -1, the failure value of byte_to_sector, and BITMAP_ERROR.
SECTOR_ERROR == 0 - 1
BITMAP_ERROR == 0 - 1
\* The value of a call that never returned (the kernel stopped inside it).
NoReturn == 0 - 2
\* Contents of a device sector that nothing has written yet.
Garbage == 0 - 9
\* Contents of the root directory's sector (its entries are not interpreted here).
DirWord == 0 - 7

Min(a, b) == IF a < b THEN a ELSE b
Max(a, b) == IF a > b THEN a ELSE b

RECURSIVE Pow(_, _)
Pow(b, e) == IF e = 0 THEN 1 ELSE b * Pow(b, e - 1)

ZeroSector == [k \in 0 .. BLOCK_SECTOR_SIZE - 1 |-> 0]
ZeroArr == [k \in 0 .. MAX_INDEX - 1 |-> 0]
\* memset (&disk_inode, 0, sizeof disk_inode)
ZeroInode == [in_use |-> FALSE, length |-> 0, arr |-> ZeroArr]

(***************************************************************************)
(* State                                                                   *)
(***************************************************************************)
VARIABLES
  itable,       \* inode table: inumber -> struct inode_disk (as seen through the cache)
  sec,          \* contents of every sector, as seen through the cache
  free_map,     \* the bitmap: sector -> used?
  open_inodes,  \* the list of struct inode, front first
  linked,       \* inumbers that have a directory entry
  panic,        \* the kernel has stopped (device error or failed ASSERT)
  nwrites,      \* inode_write_at calls so far
  wr,           \* the last inode_write_at, while only reads have followed it
  last,         \* the last call and what it returned
  \* The buffer cache and its threads (specification SpecCache).
  cache_entries,      \* slot -> struct cache_entry, with the state of its rw_lock
  cache_hash,         \* slots in cache_hash
  cache_closed_hash,  \* slots in cache_closed_hash
  cache_lock,         \* holder of cache_lock
  evict_lock,         \* holder of evict_lock
  cur_index,          \* the clock hand
  list_ext,           \* the external extents (the free map's buffer)
  dev,                \* the block device: sector -> contents
  pc,                 \* thread -> the statement it is at
  loc,                \* thread -> its local variables
  nops,               \* thread -> cache calls it has made
  done,               \* cache_destroy has set done
  written,            \* sector -> what the last finished write left in its slot
  \* Threads inside inode_open / inode_close (specification SpecOpen).
  opc,                \* thread -> the statement it is at
  oloc,               \* thread -> its local variables
  \* The directory layer (specification SpecDir).
  is_dir,             \* inumber -> is_dir of the on-disk inode
  cwd,                \* the calling thread's cwd: the inumber of its inode, or NoDir
  held,               \* inumber -> opens of it the caller has not closed
  ncalls,             \* calls made so far
  crc                 \* progress of a create, remove, create of one path

fsVars == <<itable, sec, free_map, open_inodes, linked, panic, nwrites, wr, last>>
cacheVars == <<cache_entries, cache_hash, cache_closed_hash, cache_lock, evict_lock,
               cur_index, list_ext, dev, pc, loc, nops, done, written>>
openVars == <<opc, oloc>>
dirVars == <<is_dir, cwd, held, ncalls, crc>>
vars == <<itable, sec, free_map, open_inodes, linked, panic, nwrites, wr, last,
          cache_entries, cache_hash, cache_closed_hash, cache_lock, evict_lock,
          cur_index, list_ext, dev, pc, loc, nops, done, written, opc, oloc,
          is_dir, cwd, held, ncalls, crc>>

NoOp == [op |-> "none"]
\* No thread: the holder of a free lock.
NoThread == 0 - 1
\* NULL, where a struct dir * is expected.
NoDir == 0 - 1

\* Bind (x, Op) is Op (x) with x evaluated once: a local variable of the code.
Bind(x, Op(_)) == CHOOSE y \in {Op(v) : v \in {x}} : TRUE

(***************************************************************************)
(* Free map                                                                *)
(***************************************************************************)
\* bitmap_scan_and_flip (b, 0, cnt, false): the first index of cnt clear bits.
bitmap_scan(fm, cnt) ==
  Bind({s \in DOMAIN fm : \A j \in 0 .. cnt - 1 : (s + j) \in DOMAIN fm /\ ~fm[s + j]},
       LAMBDA starts : IF starts = {} THEN BITMAP_ERROR
                       ELSE CHOOSE s \in starts : \A t \in starts : s <= t)

\* free_map_allocate without the flip of bitmap_scan_and_flip.
free_map_allocate_noflip(fm, cnt) ==
  Bind(bitmap_scan(fm, cnt),
       LAMBDA s : IF s = BITMAP_ERROR
                  THEN [ok |-> FALSE, sector |-> 0, fm |-> fm]
                  ELSE [ok |-> TRUE, sector |-> s, fm |-> fm])

free_map_allocate(fm, cnt) ==
  Bind(bitmap_scan(fm, cnt),
       LAMBDA s : IF s = BITMAP_ERROR
                  THEN [ok |-> FALSE, sector |-> 0, fm |-> fm]
                  ELSE [ok |-> TRUE, sector |-> s,
                        fm |-> [x \in DOMAIN fm |->
                                  IF x >= s /\ x < s + cnt THEN TRUE ELSE fm[x]]])

\* ok is the ASSERT (bitmap_all (free_map, sector, cnt)).
free_map_release(fm, sector, cnt) ==
  [ok |-> \A j \in 0 .. cnt - 1 : (sector + j) \in DOMAIN fm /\ fm[sector + j],
   fm |-> [x \in DOMAIN fm |-> IF x >= sector /\ x < sector + cnt THEN FALSE ELSE fm[x]]]

\* free_map_create: the inode table and the free map itself are marked used.
free_map_create == [s \in Sectors |-> s < INODE_TABLE_SECTORS + num_sectors]

(***************************************************************************)
(* Buffer cache, sequential contract.  A context c carries the state one   *)
(* call works on: c.fm the bitmap, c.sec the sectors, c.it the inode       *)
(* table, c.panic, and c.ino / c.data, the inumber and the in-memory       *)
(* struct inode_disk of the inode the call is about.                       *)
(***************************************************************************)
\* block_read / block_write on a sector the device does not have is fatal.
OnDevice(sector) == sector \in Sectors

\* cache_sector_add: a zeroed, dirty slot; the device is not read.
cache_sector_add(c, sector) ==
  IF ~OnDevice(sector) THEN [c EXCEPT !.panic = TRUE]
  ELSE [c EXCEPT !.sec[sector] = ZeroSector]

\* cache_sector_read of one word.
cache_sector_read(c, sector, ofs) == IF OnDevice(sector) THEN c.sec[sector][ofs] ELSE 0

\* cache_sector_remove: the slot is dropped without write-back; what the sector
\* holds afterwards is whatever the device happens to hold.
cache_sector_remove(c, sector) ==
  IF ~OnDevice(sector) THEN c
  ELSE [c EXCEPT !.sec[sector] = [k \in 0 .. BLOCK_SECTOR_SIZE - 1 |-> Garbage]]

\* cache_sector_write that always copies from the start of the caller's buffer.
cache_sector_write_start(c, sector, buf, from, size, ofs) ==
  IF ~OnDevice(sector) THEN [c EXCEPT !.panic = TRUE]
  ELSE [c EXCEPT !.sec[sector] =
          [k \in 0 .. BLOCK_SECTOR_SIZE - 1 |->
             IF k >= ofs /\ k < ofs + size THEN buf[(k - ofs) + 1] ELSE @[k]]]

\* cache_sector_write of the words buf[from .. from + size - 1] at word ofs.
cache_sector_write(c, sector, buf, from, size, ofs) ==
  IF ~OnDevice(sector) THEN [c EXCEPT !.panic = TRUE]
  ELSE [c EXCEPT !.sec[sector] =
          [k \in 0 .. BLOCK_SECTOR_SIZE - 1 |->
             IF k >= ofs /\ k < ofs + size THEN buf[from + (k - ofs) + 1] ELSE @[k]]]

\* inode_write_to_table: the whole in-memory struct inode_disk goes to the table.
inode_write_to_table(c) == [c EXCEPT !.it[c.ino] = c.data]

(***************************************************************************)
(* Sector fix-up                                                           *)
(***************************************************************************)
\* sector_fixup (block_sector_t *sector): cur is *sector on entry.
sector_fixup(c, cur) ==
  IF cur # 0 THEN [ok |-> TRUE, sector |-> cur, c |-> c]
  ELSE Bind(free_map_allocate(c.fm, 1),
            LAMBDA a : IF ~a.ok THEN [ok |-> FALSE, sector |-> cur, c |-> c]
                       ELSE [ok |-> TRUE, sector |-> a.sector,
                             c |-> cache_sector_add([c EXCEPT !.fm = a.fm], a.sector)])

\* sector_fixup_disk (from_sector, &to_sector, index)
sector_fixup_disk(c, from_sector, index) ==
  Bind(cache_sector_read(c, from_sector, index),
       LAMBDA prev_sector :
         Bind(sector_fixup(c, prev_sector),
              LAMBDA r : IF ~r.ok THEN r
                         ELSE IF prev_sector = 0
                         THEN [r EXCEPT !.c = cache_sector_write(r.c, from_sector,
                                                                 <<r.sector>>, 0, 1, index)]
                         ELSE r))

\* The loop over the levels of sector_fixup_depth, from level i.
RECURSIVE fixup_levels(_, _, _, _, _)
fixup_levels(c, sector_to, index, depth, i) ==
  IF i >= depth THEN [ok |-> TRUE, sector |-> sector_to, c |-> c]
  ELSE Bind(sector_fixup_disk(c, sector_to,
                              (index \div Pow(NUM_PER_SECTOR, depth - 1 - i)) % NUM_PER_SECTOR),
            LAMBDA r : IF ~r.ok THEN [ok |-> FALSE, sector |-> SECTOR_ERROR, c |-> r.c]
                       ELSE fixup_levels(r.c, r.sector, index, depth, i + 1))

\* sector_fixup_depth (inode, start_index, prev_limit, index, depth)
sector_fixup_depth(c, start_index, prev_limit, index0, depth) ==
  Bind(index0 - prev_limit, LAMBDA index :
  Bind((index \div Pow(NUM_PER_SECTOR, depth)) + start_index, LAMBDA arr_index :
  Bind(sector_fixup(c, c.data.arr[arr_index]), LAMBDA r0 :
    IF ~r0.ok THEN [sector |-> SECTOR_ERROR, c |-> r0.c]
    ELSE Bind([r0.c EXCEPT !.data.arr[arr_index] = r0.sector], LAMBDA c1 :
         Bind(fixup_levels(c1, r0.sector, index, depth, 0), LAMBDA r :
           IF ~r.ok THEN [sector |-> SECTOR_ERROR, c |-> r.c]
           ELSE [sector |-> r.sector, c |-> inode_write_to_table(r.c)])))))

\* byte_to_sector (inode, pos)
byte_to_sector(c, pos) ==
  Bind(pos \div BLOCK_SECTOR_SIZE, LAMBDA index :
    IF index < DIRECT_LIMIT THEN sector_fixup_depth(c, 0, 0, index, 0)
    ELSE IF index < SID_LIMIT THEN sector_fixup_depth(c, SID_INDEX, DIRECT_LIMIT, index, 1)
    ELSE IF index < DID_LIMIT THEN sector_fixup_depth(c, DID_INDEX, SID_LIMIT, index, 2)
    ELSE [sector |-> SECTOR_ERROR, c |-> c])

(***************************************************************************)
(* Reading and writing                                                     *)
(***************************************************************************)
\* The words 0 .. n - 1 of the buffer of the w-th write: distinct per write and
\* per position, and never 0.
WriteBuf(w, n) == [k \in 1 .. n |-> 10 * w + k]

\* The loop of inode_write_at.  failed: byte_to_sector returned -1 for a chunk;
\* done_before: bytes_written when that chunk began; bad_write: a cache write
\* was issued for that chunk; len_before: length when that chunk began.
RECURSIVE write_loop(_, _, _, _, _)
write_loop(c, buf, size, offset, bytes_written) ==
  IF size <= 0
  THEN [ret |-> bytes_written, c |-> c, failed |-> FALSE, done_before |-> bytes_written,
        bad_write |-> FALSE, len_before |-> c.data.length]
  ELSE
  Bind(offset % BLOCK_SECTOR_SIZE, LAMBDA sector_ofs :
  Bind(Min(size, BLOCK_SECTOR_SIZE - sector_ofs), LAMBDA chunk_size :
  Bind(byte_to_sector(c, offset), LAMBDA b :
  Bind(cache_sector_write(b.c, b.sector, buf, bytes_written, chunk_size, sector_ofs),
       LAMBDA c1 :
    IF c1.panic
    THEN [ret |-> NoReturn, c |-> c1, failed |-> b.sector = SECTOR_ERROR,
          done_before |-> bytes_written, bad_write |-> TRUE, len_before |-> c.data.length]
    ELSE Bind(IF offset + chunk_size > c1.data.length
              THEN inode_write_to_table([c1 EXCEPT !.data.length = offset + chunk_size])
              ELSE c1,
              LAMBDA c2 :
         Bind(<<size - chunk_size, offset + chunk_size, bytes_written + chunk_size>>,
              LAMBDA n : write_loop(c2, buf, n[1], n[2], n[3])))))))

\* inode_write_at without the test of deny_write_cnt.
inode_write_at_nodeny(c, deny_write_cnt, buf, size, offset) == write_loop(c, buf, size, offset, 0)

\* inode_write_at (inode, buffer, size, offset)
inode_write_at(c, deny_write_cnt, buf, size, offset) ==
  IF deny_write_cnt > 0
  THEN [ret |-> 0, c |-> c, failed |-> FALSE, done_before |-> 0, bad_write |-> FALSE,
        len_before |-> c.data.length]
  ELSE write_loop(c, buf, size, offset, 0)

\* The loop of inode_read_at; out is the buffer filled so far.
RECURSIVE read_loop(_, _, _, _)
read_loop(c, size, offset, out) ==
  Bind(offset % BLOCK_SECTOR_SIZE, LAMBDA sector_ofs :
  Bind(Min(size, Min(c.data.length - offset, BLOCK_SECTOR_SIZE - sector_ofs)),
       LAMBDA chunk_size :
    IF size <= 0 \/ chunk_size <= 0
    THEN [ret |-> Len(out), out |-> out, c |-> c, offset |-> offset]
    ELSE Bind(byte_to_sector(c, offset), LAMBDA b :
           IF ~OnDevice(b.sector)
           THEN [ret |-> NoReturn, out |-> out, c |-> [b.c EXCEPT !.panic = TRUE],
                 offset |-> offset]
           ELSE Bind(<<size - chunk_size, offset + chunk_size,
                       out \o [k \in 1 .. chunk_size |->
                                 cache_sector_read(b.c, b.sector, sector_ofs + k - 1)]>>,
                     LAMBDA n : read_loop(b.c, n[1], n[2], n[3])))))

\* inode_read_at (inode, buffer, size, offset), with its read-ahead step.
\* prefetch is the sector handed to cache_sector_fetch_async, 0 if none; a
\* request for a sector the device does not have stops the kernel in the
\* fetch loop.
inode_read_at(c, size, offset) ==
  Bind(read_loop(c, size, offset, <<>>), LAMBDA r :
  Bind(r.offset - (r.offset % BLOCK_SECTOR_SIZE), LAMBDA next :
    IF r.c.panic THEN [ret |-> r.ret, out |-> r.out, c |-> r.c, prefetch |-> 0]
    ELSE IF next < r.c.data.length
    THEN Bind(byte_to_sector(r.c, next), LAMBDA b :
           [ret |-> r.ret, out |-> r.out, prefetch |-> b.sector,
            c |-> [b.c EXCEPT !.panic = ~OnDevice(b.sector)]])
    ELSE [ret |-> r.ret, out |-> r.out, c |-> r.c, prefetch |-> 0]))

(***************************************************************************)
(* Inode table and open inodes                                             *)
(***************************************************************************)
\* inode_assign_inumber: the first entry in table order that is not in use.
inode_assign_inumber(it) ==
  LET free == {i \in DOMAIN it : ~it[i].in_use}
  IN IF free = {} THEN [ok |-> FALSE, inumber |-> 0, it |-> it]
     ELSE LET i == CHOOSE x \in free : \A y \in free : x <= y
          IN [ok |-> TRUE, inumber |-> i, it |-> [it EXCEPT ![i].in_use = TRUE]]

\* inode_release_inumber
inode_release_inumber(it, inumber) == [it EXCEPT ![inumber] = ZeroInode]

\* inode_create (inumber, length)
inode_create(it, inumber, length) ==
  [it EXCEPT ![inumber] = [in_use |-> TRUE, length |-> length, arr |-> ZeroArr]]

\* Position in the list of the first struct inode with this inumber, 0 if none.
HandleIdx(list, inumber) ==
  LET ks == {k \in 1 .. Len(list) : list[k].inumber = inumber}
  IN IF ks = {} THEN 0 ELSE CHOOSE k \in ks : \A j \in ks : k <= j

\* inode_reopen
inode_reopen(list, k) == [list EXCEPT ![k].open_cnt = @ + 1]

\* inode_open (inumber): the list afterwards; the handle is the first match.
inode_open(list, it, inumber) ==
  LET k == HandleIdx(list, inumber)
  IN IF k # 0 THEN inode_reopen(list, k)
     ELSE <<[inumber |-> inumber, open_cnt |-> 1, deny_write_cnt |-> 0,
             removed |-> FALSE, data |-> it[inumber]]>> \o list

\* inode_remove
inode_remove(list, k) == [list EXCEPT ![k].removed = TRUE]

RemoveAt(list, k) == [j \in 1 .. Len(list) - 1 |-> IF j < k THEN list[j] ELSE list[j + 1]]

(***************************************************************************)
(* Release                                                                 *)
(***************************************************************************)
\* sector_deallocate
sector_deallocate(c, sector) ==
  IF sector = 0 THEN c
  ELSE Bind(cache_sector_remove(c, sector), LAMBDA c1 :
       Bind(free_map_release(c1.fm, sector, 1), LAMBDA r :
         [c1 EXCEPT !.fm = r.fm, !.panic = c1.panic \/ ~r.ok]))

\* sector_deallocate_disk (from_sector, depth); dealloc_entries is its loop
\* over the entries j .. NUM_PER_SECTOR - 1 of from_sector.
RECURSIVE sector_deallocate_disk(_, _, _)
RECURSIVE dealloc_entries(_, _, _, _)
sector_deallocate_disk(c, from_sector, depth) ==
  IF from_sector = 0 THEN c
  ELSE IF depth = 0 THEN sector_deallocate(c, from_sector)
  ELSE Bind(dealloc_entries(c, from_sector, depth - 1, 0),
            LAMBDA c1 : sector_deallocate(c1, from_sector))

dealloc_entries(c, from_sector, depth, j) ==
  IF j >= NUM_PER_SECTOR THEN c
  ELSE Bind(cache_sector_read(c, from_sector, j), LAMBDA to_sector :
       Bind(sector_deallocate_disk(c, to_sector, depth), LAMBDA c1 :
       Bind(j + 1, LAMBDA j1 : dealloc_entries(c1, from_sector, depth, j1))))

\* inode_release_sectors; the loop over arr[i .. MAX_INDEX - 1].
RECURSIVE release_from(_, _)
release_from(c, i) ==
  IF i >= MAX_INDEX THEN c
  ELSE Bind(sector_deallocate_disk(c, c.data.arr[i],
                                   IF i < SID_INDEX THEN 0 ELSE IF i < DID_INDEX THEN 1 ELSE 2),
            LAMBDA c1 : Bind(i + 1, LAMBDA i1 : release_from(c1, i1)))

inode_release_sectors(c) == release_from(c, 0)

\* inode_close that releases a removed inode at every close.
inode_close_every(list, k, c) ==
  IF ~list[k].removed
  THEN IF list[k].open_cnt - 1 # 0
       THEN [list |-> [list EXCEPT ![k].open_cnt = @ - 1], c |-> c, released |-> FALSE]
       ELSE [list |-> RemoveAt(list, k), c |-> c, released |-> FALSE]
  ELSE [list |-> IF list[k].open_cnt - 1 # 0
                 THEN [list EXCEPT ![k].open_cnt = @ - 1] ELSE RemoveAt(list, k),
        released |-> TRUE,
        c |-> Bind([c EXCEPT !.it = inode_release_inumber(c.it, c.ino)],
                   LAMBDA c1 : inode_release_sectors(c1))]

\* inode_close on the struct inode at position k of the list.
inode_close(list, k, c) ==
  IF list[k].open_cnt - 1 # 0
  THEN [list |-> [list EXCEPT ![k].open_cnt = @ - 1], c |-> c, released |-> FALSE]
  ELSE IF list[k].removed
  THEN [list |-> RemoveAt(list, k), released |-> TRUE,
        c |-> Bind([c EXCEPT !.it = inode_release_inumber(c.it, c.ino)],
                   LAMBDA c1 : inode_release_sectors(c1))]
  ELSE [list |-> RemoveAt(list, k), c |-> c, released |-> FALSE]

(***************************************************************************)
(* What an inode refers to                                                 *)
(***************************************************************************)
\* The sector numbers a struct inode_disk d stores, each with the position
\* that stores it: <<i>> is arr[i], <<i, j>> entry j of the index sector
\* arr[i], <<i, j, k>> entry k of the index sector stored at <<i, j>>.
Refs(d, secs) ==
  LET word(s, j) == IF s \in DOMAIN secs THEN secs[s][j] ELSE 0
      E == 0 .. NUM_PER_SECTOR - 1
      top == {<<(<<i>>), d.arr[i]>> : i \in 0 .. MAX_INDEX - 1}
      one == {<<(<<i, j>>), word(d.arr[i], j)>> : i \in SID_INDEX .. MAX_INDEX - 1, j \in E}
      two == {<<(<<i, j, k>>), word(word(d.arr[i], j), k)>> :
                i \in DID_INDEX .. MAX_INDEX - 1, j \in E, k \in E}
  IN {p \in top \cup one \cup two : p[2] # 0}

SectorsOf(d, secs) == {p[2] : p \in Refs(d, secs)}

\* <<inumber, position, sector>> for every in-use entry of the inode table.
AllRefs ==
  UNION {{<<i, p[1], p[2]>> : p \in Refs(itable[i], sec)} :
           i \in {x \in Inums : itable[x].in_use}}

(***************************************************************************)
(* Specification Spec: the inode layer, one call at a time                 *)
(***************************************************************************)
\* Initial lengths of created files, and the offsets calls are made at: the
\* start, inside the first sector, across the direct/single-indirect and the
\* single/double-indirect boundary, and at the end of the largest file.
CreateLengths == {0, BLOCK_SECTOR_SIZE + 1}
Offsets == {0, 1, DIRECT_LIMIT * BLOCK_SECTOR_SIZE - 1, SID_LIMIT * BLOCK_SECTOR_SIZE - 1,
            DID_LIMIT * BLOCK_SECTOR_SIZE - 1, DID_LIMIT * BLOCK_SECTOR_SIZE}

\* The inode table, the free map and the sectors after do_format: an empty
\* table but for the root directory, whose entries occupy the first sector of
\* the pool.
FormattedTable ==
  [i \in Inums |->
     IF i = ROOT_DIR_INUMBER
     THEN [in_use |-> TRUE, length |-> BLOCK_SECTOR_SIZE,
           arr |-> [ZeroArr EXCEPT ![0] = Reserved]]
     ELSE ZeroInode]

FormattedMap == [free_map_create EXCEPT ![Reserved] = TRUE]

FormattedSectors ==
  [s \in Sectors |->
     [k \in 0 .. BLOCK_SECTOR_SIZE - 1 |->
        IF s < Reserved THEN 0 ELSE IF s = Reserved THEN DirWord ELSE Garbage]]

\* The cache and the threads of the other specifications, not in use here.
CacheIdle ==
  /\ cache_entries = <<>>
  /\ cache_hash = {}
  /\ cache_closed_hash = {}
  /\ cache_lock = NoThread
  /\ evict_lock = NoThread
  /\ cur_index = 0
  /\ list_ext = <<>>
  /\ dev = <<>>
  /\ pc = <<>>
  /\ loc = <<>>
  /\ nops = <<>>
  /\ done = FALSE
  /\ written = <<>>

OpenIdle ==
  /\ opc = <<>>
  /\ oloc = <<>>

DirIdle ==
  /\ is_dir = <<>>
  /\ cwd = NoDir
  /\ held = <<>>
  /\ ncalls = 0
  /\ crc = <<>>

Ctx(ino, data) ==
  [ino |-> ino, data |-> data, fm |-> free_map, sec |-> sec, it |-> itable, panic |-> panic]

\* do_format: an empty inode table and the root directory, whose entries
\* occupy the first sector of the pool.
Init ==
  /\ itable = FormattedTable
  /\ sec = FormattedSectors
  /\ free_map = FormattedMap
  /\ open_inodes = <<>>
  /\ linked = {}
  /\ panic = FALSE
  /\ nwrites = 0
  /\ wr = NoOp
  /\ last = NoOp
  /\ CacheIdle
  /\ OpenIdle
  /\ DirIdle

\* filesys_create: inode_assign_inumber, inode_create and dir_add, which
\* succeeds (add_ok) or finds the name in use.
FilesysCreate(length, add_ok) ==
  /\ ~panic
  /\ \E a \in {inode_assign_inumber(itable)} :
     \E it1 \in {IF a.ok THEN inode_create(a.it, a.inumber, length) ELSE a.it} :
       /\ itable' = IF ~(a.ok /\ add_ok) /\ a.inumber # 0
                    THEN inode_release_inumber(it1, a.inumber) ELSE it1
       /\ linked' = IF a.ok /\ add_ok THEN linked \cup {a.inumber} ELSE linked
       /\ last' = [op |-> "create", ino |-> a.inumber, ret |-> a.ok /\ add_ok]
  /\ wr' = NoOp
  /\ UNCHANGED <<sec, free_map, open_inodes, panic, nwrites>>
  /\ UNCHANGED <<cacheVars, openVars, dirVars>>

\* dir_lookup of an existing entry: inode_open (e.inumber).
InodeOpen(i) ==
  /\ ~panic
  /\ i \in linked
  /\ \E k \in {HandleIdx(open_inodes, i)} : k # 0 => open_inodes[k].open_cnt < MaxOpen
  /\ open_inodes' = inode_open(open_inodes, itable, i)
  /\ last' = [op |-> "open", ino |-> i]
  /\ wr' = NoOp
  /\ UNCHANGED <<itable, sec, free_map, linked, panic, nwrites>>
  /\ UNCHANGED <<cacheVars, openVars, dirVars>>

\* inode_close by one holder of the struct inode of inumber i.
InodeClose(i) ==
  /\ ~panic
  /\ \E k \in {HandleIdx(open_inodes, i)} :
       /\ k # 0
       /\ \E h \in {open_inodes[k]} :
          \E c \in {Ctx(i, h.data)} :
          \E r \in {inode_close(open_inodes, k, c)} :
            /\ open_inodes' = r.list
            /\ itable' = r.c.it
            /\ sec' = r.c.sec
            /\ free_map' = r.c.fm
            /\ panic' = r.c.panic
            /\ last' = [op |-> "close", ino |-> i, released |-> r.released,
                        was_removed |-> h.removed, cnt_before |-> h.open_cnt,
                        fm_before |-> free_map, secs_before |-> SectorsOf(h.data, sec)]
  /\ wr' = NoOp
  /\ UNCHANGED <<linked, nwrites>>
  /\ UNCHANGED <<cacheVars, openVars, dirVars>>

\* filesys_remove of a file: dir_remove opens the inode, erases the entry,
\* calls inode_remove and closes the inode.
FilesysRemove(i) ==
  /\ ~panic
  /\ i \in linked
  /\ \E l1 \in {inode_open(open_inodes, itable, i)} :
     \E k \in {HandleIdx(l1, i)} :
     \E l2 \in {inode_remove(l1, k)} :
     \E c \in {Ctx(i, l2[k].data)} :
     \E r \in {inode_close(l2, k, c)} :
       /\ open_inodes' = r.list
       /\ itable' = r.c.it
       /\ sec' = r.c.sec
       /\ free_map' = r.c.fm
       /\ panic' = r.c.panic
       /\ last' = [op |-> "remove", ino |-> i, released |-> r.released,
                   was_removed |-> TRUE, cnt_before |-> l2[k].open_cnt,
                   fm_before |-> free_map, secs_before |-> SectorsOf(l2[k].data, sec)]
  /\ linked' = linked \ {i}
  /\ wr' = NoOp
  /\ UNCHANGED nwrites
  /\ UNCHANGED <<cacheVars, openVars, dirVars>>

\* inode_write_at through the struct inode of inumber i.
InodeWriteAt(i, offset, size) ==
  /\ ~panic
  /\ nwrites < MaxWrites
  /\ \E k \in {HandleIdx(open_inodes, i)} :
       /\ k # 0
       /\ \E h \in {open_inodes[k]} :
          \E buf \in {WriteBuf(nwrites + 1, size)} :
          \E c \in {Ctx(i, h.data)} :
          \E r \in {inode_write_at(c, h.deny_write_cnt, buf, size, offset)} :
          \E rec \in {[op |-> "write", ino |-> i, offset |-> offset, size |-> size,
                       buf |-> buf, ret |-> r.ret, failed |-> r.failed,
                       done_before |-> r.done_before, bad_write |-> r.bad_write,
                       len_before |-> r.len_before, len_after |-> r.c.data.length]} :
            /\ open_inodes' = [open_inodes EXCEPT ![k].data = r.c.data]
            /\ itable' = r.c.it
            /\ sec' = r.c.sec
            /\ free_map' = r.c.fm
            /\ panic' = r.c.panic
            /\ last' = rec
            /\ wr' = rec
  /\ nwrites' = nwrites + 1
  /\ UNCHANGED linked
  /\ UNCHANGED <<cacheVars, openVars, dirVars>>

\* inode_read_at through the struct inode of inumber i.
InodeReadAt(i, offset, size) ==
  /\ ~panic
  /\ \E k \in {HandleIdx(open_inodes, i)} :
       /\ k # 0
       /\ \E h \in {open_inodes[k]} :
          \E c \in {Ctx(i, h.data)} :
          \E r \in {inode_read_at(c, size, offset)} :
            /\ open_inodes' = [open_inodes EXCEPT ![k].data = r.c.data]
            /\ itable' = r.c.it
            /\ sec' = r.c.sec
            /\ free_map' = r.c.fm
            /\ panic' = r.c.panic
            /\ last' = [op |-> "read", ino |-> i, offset |-> offset, size |-> size,
                        ret |-> r.ret, out |-> r.out, len_before |-> h.data.length,
                        prefetch |-> r.prefetch, removed |-> h.removed]
  /\ UNCHANGED <<linked, nwrites, wr>>
  /\ UNCHANGED <<cacheVars, openVars, dirVars>>

Next ==
  \/ \E length \in CreateLengths, add_ok \in BOOLEAN : FilesysCreate(length, add_ok)
  \/ \E i \in Inums : InodeOpen(i)
  \/ \E i \in Inums : InodeClose(i)
  \/ \E i \in Inums : FilesysRemove(i)
  \/ \E i \in Inums, offset \in Offsets, size \in 1 .. MaxIO : InodeWriteAt(i, offset, size)
  \/ \E i \in Inums, offset \in Offsets, size \in 1 .. MaxIO : InodeReadAt(i, offset, size)

Spec == Init /\ [][Next]_vars

(***************************************************************************)
(* Properties of the inode layer (specification Spec)                      *)
(***************************************************************************)
\* The last call is an inode_read_at of exactly the range of the last
\* inode_write_at, which returned its whole size and was followed by reads only.
ReadOfLastWrite ==
  /\ last.op = "read"
  /\ wr.op = "write"
  /\ wr.ret = wr.size
  /\ last.ino = wr.ino
  /\ last.offset = wr.offset
  /\ last.size = wr.size

\* C1: after inode_write_at (inode, buf, n, ofs) has returned n, and with no
\* other write in between, inode_read_at (inode, out, n, ofs) returns n and
\* out holds the words of buf.
C1_WriteReadRoundTrip ==
  ReadOfLastWrite =>
    /\ last.ret = wr.size
    /\ Len(last.out) = wr.size
    /\ \A k \in 1 .. wr.size : last.out[k] = wr.buf[k]

\* A round trip over the boundary between the single-indirect and the
\* double-indirect blocks.
C1_Witness ==
  /\ ReadOfLastWrite
  /\ wr.offset = SID_LIMIT * BLOCK_SECTOR_SIZE - 1
  /\ wr.size = 2
  /\ last.ret = 2

\* The number of bytes inode_read_at is to return for a file of length len.
ReadCount(len, offset, size) == IF offset >= len THEN 0 ELSE Min(size, len - offset)

\* C3: inode_read_at returns 0 bytes at or beyond the length, otherwise exactly
\* min (n, length - ofs) bytes, and none of them is the old device content of
\* a sector the file never wrote.
C3_ReadWithinLength ==
  last.op = "read" =>
    /\ last.ret = ReadCount(last.len_before, last.offset, last.size)
    /\ \A k \in 1 .. Len(last.out) : last.out[k] # Garbage

\* C4: when byte_to_sector fails for a chunk, inode_write_at returns the bytes
\* written before that chunk, issues no cache write for it and leaves the
\* length as it was.
C4_WriteStopsAtFailure ==
  (last.op = "write" /\ last.failed) =>
    /\ last.ret = last.done_before
    /\ ~last.bad_write
    /\ last.len_after = last.len_before

\* C8: a removed inode that is still open keeps its table entry in use and all
\* its sectors allocated; inode_close releases exactly when it takes the open
\* count of a removed inode to 0, and then the table entry is zeroed, every
\* sector of the inode is free, each was released once (the ASSERT of
\* free_map_release held) and no other bit of the free map changed.
C8_ReleasedAtLastClose ==
  /\ \A k \in 1 .. Len(open_inodes) :
       open_inodes[k].removed =>
         /\ open_inodes[k].open_cnt > 0
         /\ itable[open_inodes[k].inumber].in_use
         /\ \A s \in SectorsOf(open_inodes[k].data, sec) : s \in Sectors /\ free_map[s]
  /\ last.op \in {"close", "remove"} =>
       /\ last.released <=> (last.was_removed /\ last.cnt_before = 1)
       /\ last.released =>
            /\ ~panic
            /\ itable[last.ino] = ZeroInode
            /\ HandleIdx(open_inodes, last.ino) = 0
            /\ \A s \in Sectors :
                 free_map[s] = (last.fm_before[s] /\ s \notin last.secs_before)
       /\ ~last.released => free_map = last.fm_before

\* The last close of a removed inode that had data, single-indirect and
\* double-indirect sectors, some time after inode_remove.
C8_Witness ==
  /\ last.op = "close"
  /\ last.released
  /\ Cardinality(last.secs_before) >= 5

\* C9: every sector number stored in an in-use inode or in one of its index
\* sectors is marked used in the free map, lies outside the reserved region
\* and is stored at exactly one position of exactly one inode; the same holds
\* of the struct inode_disk of every open inode.
C9_SectorsUsedOnce ==
  /\ \A r \in AllRefs :
       /\ r[3] \in PoolSecs
       /\ free_map[r[3]]
       /\ \A q \in AllRefs : q[3] = r[3] => q = r
  /\ \A k \in 1 .. Len(open_inodes) :
       LET R == Refs(open_inodes[k].data, sec)
       IN \A r \in R : /\ r[2] \in PoolSecs
                        /\ free_map[r[2]]
                        /\ \A q \in R : q[2] = r[2] => q = r

\* Two inodes hold sectors, one of them through a double-indirect block.
C9_Witness ==
  /\ \E r \in AllRefs : Len(r[2]) = 3
  /\ \E r, q \in AllRefs : r[1] # q[1]

\* No sector beyond the reserved region is marked used without being stored in
\* an in-use entry of the inode table.
NoLeak == \A s \in PoolSecs : free_map[s] => \E r \in AllRefs : r[3] = s

\* C10: when all files are closed, and also after an operation that failed,
\* every used sector beyond the reserved region is reachable from an in-use
\* entry of the inode table.
C10_NoSectorLeak ==
  (open_inodes = <<>> \/ panic \/ (last.op = "create" /\ ~last.ret)) => NoLeak


\* C37: reading never allocates: a step of inode_read_at, its read-ahead
\* included, leaves the block pointers of every inode, the index sectors,
\* the lengths and the free map unchanged.
C37_ReadNeverAllocates ==
  [][last'.op = "read" =>
       /\ free_map' = free_map
       /\ itable' = itable
       /\ sec' = sec
       /\ open_inodes' = open_inodes]_vars

\* The sector number stored for block index of the inode d, 0 for a hole:
\* what byte_to_sector returns for a block that needs no fix-up.
BlockSector(d, secs, index) ==
  LET word(s, j) == IF s \in Sectors /\ s # 0 THEN secs[s][j] ELSE 0
  IN IF index < DIRECT_LIMIT THEN d.arr[index]
     ELSE IF index < SID_LIMIT
     THEN word(d.arr[SID_INDEX + (index - DIRECT_LIMIT) \div NUM_PER_SECTOR],
               (index - DIRECT_LIMIT) % NUM_PER_SECTOR)
     ELSE IF index < DID_LIMIT
     THEN word(word(d.arr[DID_INDEX + (index - SID_LIMIT) \div (NUM_PER_SECTOR * NUM_PER_SECTOR)],
                    ((index - SID_LIMIT) \div NUM_PER_SECTOR) % NUM_PER_SECTOR),
               (index - SID_LIMIT) % NUM_PER_SECTOR)
     ELSE 0

\* C39: after an inode_read_at whose last byte read is in block b, the
\* prefetch request, if there is one, is for the sector that backs block
\* b + 1, and block b + 1 starts below the length.
C39_ReadAheadTarget ==
  [][(last'.op = "read" /\ ~panic' /\ last'.ret > 0 /\ last'.prefetch # 0) =>
       LET b == (last'.offset + last'.ret - 1) \div BLOCK_SECTOR_SIZE
           d == open_inodes'[HandleIdx(open_inodes', last'.ino)].data
       IN /\ (b + 1) * BLOCK_SECTOR_SIZE < d.length
          /\ last'.prefetch = BlockSector(d, sec', b + 1)]_vars

(***************************************************************************)
(* The buffer cache and its threads (specification SpecCache).             *)
(*                                                                         *)
(* User threads call cache_sector_read and cache_sector_write on whole     *)
(* sectors and free_map_allocate; the cache_loop thread runs cache_flush;  *)
(* the main thread runs filesys_done.  An action is one statement, or one  *)
(* run of statements between two points where another thread can observe  *)
(* or change what the run works on.  memcpy copies one word per step.      *)
(***************************************************************************)
NUM_CACHE_SECTORS == 2
NumUsers == 2
UserOps == 1
MaxFlush == 1
MaxPri == 1

\* The cache_loop thread created by cache_init.
FlushT == 0
Users == 1 .. NumUsers
MainT == NumUsers + 1
Threads == 0 .. MainT
Slots == 0 .. NUM_CACHE_SECTORS - 1
\* NULL, where a struct cache_entry * is expected.
NoSlot == 0 - 1
\* The sectors the user threads read and write.
CacheSectors == {Reserved, Reserved + 1}

fsRest == <<itable, sec, open_inodes, linked, panic, nwrites, wr, last>>

\* struct rw_lock: any number of readers or one writer.
rw_lock_init == [readers |-> {}, writer |-> NoThread]
rw_lock_free_r(l) == l.writer = NoThread
rw_lock_free_w(l) == l.writer = NoThread /\ l.readers = {}
rw_lock_acquire_r(l, t) == [l EXCEPT !.readers = @ \cup {t}]
rw_lock_release_r(l, t) == [l EXCEPT !.readers = @ \ {t}]
rw_lock_acquire_w(l, t) == [l EXCEPT !.writer = t]
rw_lock_release_w(l) == [l EXCEPT !.writer = NoThread]
rw_lock_demote(l, t) == [readers |-> l.readers \cup {t}, writer |-> NoThread]

\* hash_delete and hash_insert with cache_less_func: two elements are equal
\* when their sectors are; an insert of an equal element is rejected.
hash_delete(h, entries, k) == {j \in h : entries[j].sector # entries[k].sector}
hash_insert(h, entries, k) ==
  IF \E j \in h : entries[j].sector = entries[k].sector THEN h ELSE h \cup {k}

\* cache_lookup (sector, closed)
cache_lookup(sector, closed) ==
  LET m == {k \in (IF closed THEN cache_closed_hash ELSE cache_hash) :
              cache_entries[k].sector = sector}
  IN IF m = {} THEN NoSlot ELSE CHOOSE k \in m : TRUE

\* The locals of a thread that is in no cache call.
IdleLoc == [op |-> "none", sector |-> SECTOR_ERROR, pri |-> 0, ce |-> NoSlot,
            write_back |-> FALSE, old_sector |-> SECTOR_ERROR, i |-> 0,
            buf |-> ZeroSector, locked_ce |-> NoSlot]

\* The buffer thread t writes from, and a buffer not yet read into.
UserBuf(t) == [k \in 0 .. BLOCK_SECTOR_SIZE - 1 |-> t]
FreshBuf == [k \in 0 .. BLOCK_SECTOR_SIZE - 1 |-> Garbage]

\* filesys_init (format = false) on a formatted device: cache_init, then
\* free_map_open.  All slots hold sector -1, so the closed hash accepts the
\* first of them only; cache_sector_read_external leaves the sector of the
\* extent unset.
CacheInit ==
  /\ itable = FormattedTable
  /\ sec = [s \in Sectors |-> ZeroSector]
  /\ free_map = FormattedMap
  /\ open_inodes = <<>>
  /\ linked = {}
  /\ panic = FALSE
  /\ nwrites = 0
  /\ wr = NoOp
  /\ last = NoOp
  /\ OpenIdle
  /\ DirIdle
  /\ cache_entries = [k \in Slots |->
                        [sector |-> SECTOR_ERROR, dirty |-> FALSE, accessed |-> 0,
                         data |-> ZeroSector, rw_lock |-> rw_lock_init]]
  /\ cache_hash = {}
  /\ cache_closed_hash = {0}
  /\ cache_lock = NoThread
  /\ evict_lock = NoThread
  /\ cur_index = 0
  /\ list_ext = <<[sector |-> SECTOR_ERROR, dirty |-> FALSE]>>
  /\ dev = [s \in Sectors |-> IF s = INODE_TABLE_SECTORS THEN FormattedMap ELSE ZeroSector]
  /\ written = [s \in CacheSectors |-> ZeroSector]
  /\ pc = [t \in Threads |-> "idle"]
  /\ loc = [t \in Threads |-> IdleLoc]
  /\ nops = [t \in Threads |-> 0]
  /\ done = FALSE

\* A user thread enters cache_sector_read or cache_sector_write.
CacheBegin(t, op, sector, pri) ==
  /\ pc[t] = "idle"
  /\ pc[MainT] = "idle"
  /\ nops[t] < UserOps
  /\ pc' = [pc EXCEPT ![t] = "lock"]
  /\ loc' = [loc EXCEPT ![t] = [IdleLoc EXCEPT !.op = op, !.sector = sector, !.pri = pri,
                                               !.buf = IF op = "write" THEN UserBuf(t)
                                                       ELSE FreshBuf]]
  /\ nops' = [nops EXCEPT ![t] = @ + 1]
  /\ UNCHANGED <<cache_entries, cache_hash, cache_closed_hash, cache_lock, evict_lock,
                 cur_index, list_ext, dev, written, done, free_map>>
  /\ UNCHANGED <<fsRest, openVars, dirVars>>

\* cache_get_entry: lock_acquire (&cache_lock)
CacheLock(t) ==
  /\ pc[t] = "lock"
  /\ cache_lock = NoThread
  /\ cache_lock' = t
  /\ pc' = [pc EXCEPT ![t] = "lookup"]
  /\ UNCHANGED <<cache_entries, cache_hash, cache_closed_hash, evict_lock,
                 cur_index, list_ext, dev, written, loc, nops, done, free_map>>
  /\ UNCHANGED <<fsRest, openVars, dirVars>>

\* cache_get_entry: the two lookups.
CacheLookup(t) ==
  /\ pc[t] = "lookup"
  /\ \E open \in {cache_lookup(loc[t].sector, FALSE)} :
     \E closed \in {cache_lookup(loc[t].sector, TRUE)} :
       IF open # NoSlot
       THEN /\ loc' = [loc EXCEPT ![t].ce = open]
            /\ pc' = [pc EXCEPT ![t] = "hit"]
            /\ UNCHANGED <<cache_hash, cache_closed_hash>>
       ELSE IF closed # NoSlot
       THEN /\ cache_closed_hash' = hash_delete(cache_closed_hash, cache_entries, closed)
            /\ cache_hash' = hash_insert(cache_hash, cache_entries, closed)
            /\ loc' = [loc EXCEPT ![t].ce = closed]
            /\ pc' = [pc EXCEPT ![t] = "hit"]
       ELSE /\ pc' = [pc EXCEPT ![t] = "evict"]
            /\ UNCHANGED <<cache_hash, cache_closed_hash, loc>>
  /\ UNCHANGED <<cache_entries, cache_lock, evict_lock,
                 cur_index, list_ext, dev, written, nops, done, free_map>>
  /\ UNCHANGED <<fsRest, openVars, dirVars>>

\* cache_get_entry on a hit: rw_lock_acquire_r, lock_release (&cache_lock)
CacheHit(t) ==
  /\ pc[t] = "hit"
  /\ rw_lock_free_r(cache_entries[loc[t].ce].rw_lock)
  /\ cache_entries' = [cache_entries EXCEPT ![loc[t].ce].rw_lock = rw_lock_acquire_r(@, t)]
  /\ cache_lock' = NoThread
  /\ pc' = [pc EXCEPT ![t] = IF loc[t].op = "lock" THEN "promote" ELSE "mark"]
  /\ UNCHANGED <<cache_hash, cache_closed_hash, evict_lock,
                 cur_index, list_ext, dev, written, loc, nops, done, free_map>>
  /\ UNCHANGED <<fsRest, openVars, dirVars>>

\* cache_evict that goes to the clock loop whatever the closed hash holds.
CacheEvict_clock(t) ==
  /\ pc[t] = "evict"
  /\ \E k \in {(cur_index + 1) % NUM_CACHE_SECTORS} :
       /\ cur_index' = k
       /\ UNCHANGED cache_closed_hash
       /\ IF ~rw_lock_free_w(cache_entries[k].rw_lock)
          THEN UNCHANGED <<cache_entries, loc, pc>>
          ELSE IF cache_entries[k].accessed > 0
          THEN /\ cache_entries' = [cache_entries EXCEPT ![k].accessed = @ - 1]
               /\ UNCHANGED <<loc, pc>>
          ELSE /\ cache_entries' =
                    [cache_entries EXCEPT ![k].rw_lock = rw_lock_acquire_w(@, t)]
               /\ loc' = [loc EXCEPT ![t].ce = k]
               /\ pc' = [pc EXCEPT ![t] = "rehash"]
  /\ UNCHANGED <<cache_hash, cache_lock, evict_lock,
                 list_ext, dev, written, nops, done, free_map>>
  /\ UNCHANGED <<fsRest, openVars, dirVars>>

\* cache_evict whose clock takes the first slot it can lock, whatever its
\* accessed count.
CacheEvict_first(t) ==
  /\ pc[t] = "evict"
  /\ IF cache_closed_hash # {}
     THEN \E k \in cache_closed_hash :
            /\ cache_closed_hash' = hash_delete(cache_closed_hash, cache_entries, k)
            /\ loc' = [loc EXCEPT ![t].ce = k]
            /\ pc' = [pc EXCEPT ![t] = "acquire_w"]
            /\ UNCHANGED <<cache_entries, cur_index>>
     ELSE \E k \in {(cur_index + 1) % NUM_CACHE_SECTORS} :
            /\ cur_index' = k
            /\ UNCHANGED cache_closed_hash
            /\ IF ~rw_lock_free_w(cache_entries[k].rw_lock)
               THEN UNCHANGED <<cache_entries, loc, pc>>
               ELSE /\ cache_entries' =
                         [cache_entries EXCEPT ![k].rw_lock = rw_lock_acquire_w(@, t)]
                    /\ loc' = [loc EXCEPT ![t].ce = k]
                    /\ pc' = [pc EXCEPT ![t] = "rehash"]
  /\ UNCHANGED <<cache_hash, cache_lock, evict_lock,
                 list_ext, dev, written, nops, done, free_map>>
  /\ UNCHANGED <<fsRest, openVars, dirVars>>

\* cache_evict: a slot of the closed hash if there is one, or else one turn
\* of the clock loop.
CacheEvict(t) ==
  /\ pc[t] = "evict"
  /\ IF cache_closed_hash # {}
     THEN \E k \in cache_closed_hash :
            /\ cache_closed_hash' = hash_delete(cache_closed_hash, cache_entries, k)
            /\ loc' = [loc EXCEPT ![t].ce = k]
            /\ pc' = [pc EXCEPT ![t] = "acquire_w"]
            /\ UNCHANGED <<cache_entries, cur_index>>
     ELSE \E k \in {(cur_index + 1) % NUM_CACHE_SECTORS} :
            /\ cur_index' = k
            /\ UNCHANGED cache_closed_hash
            /\ IF ~rw_lock_free_w(cache_entries[k].rw_lock)
               THEN UNCHANGED <<cache_entries, loc, pc>>
               ELSE IF cache_entries[k].accessed > 0
               THEN /\ cache_entries' = [cache_entries EXCEPT ![k].accessed = @ - 1]
                    /\ UNCHANGED <<loc, pc>>
               ELSE /\ cache_entries' =
                         [cache_entries EXCEPT ![k].rw_lock = rw_lock_acquire_w(@, t)]
                    /\ loc' = [loc EXCEPT ![t].ce = k]
                    /\ pc' = [pc EXCEPT ![t] = "rehash"]
  /\ UNCHANGED <<cache_hash, cache_lock, evict_lock,
                 list_ext, dev, written, nops, done, free_map>>
  /\ UNCHANGED <<fsRest, openVars, dirVars>>

\* cache_evict: rw_lock_acquire_w on the slot taken from the closed hash.
CacheAcquireW(t) ==
  /\ pc[t] = "acquire_w"
  /\ rw_lock_free_w(cache_entries[loc[t].ce].rw_lock)
  /\ cache_entries' = [cache_entries EXCEPT ![loc[t].ce].rw_lock = rw_lock_acquire_w(@, t)]
  /\ pc' = [pc EXCEPT ![t] = "rehash"]
  /\ UNCHANGED <<cache_hash, cache_closed_hash, cache_lock, evict_lock,
                 cur_index, list_ext, dev, written, loc, nops, done, free_map>>
  /\ UNCHANGED <<fsRest, openVars, dirVars>>

\* cache_get_entry: note the write-back, rehash the slot under the new sector.
CacheRehash(t) ==
  /\ pc[t] = "rehash"
  /\ \E k \in {loc[t].ce} :
     \E e \in {cache_entries[k]} :
     \E h \in {hash_delete(cache_hash, cache_entries, k)} :
     \E es \in {[cache_entries EXCEPT ![k].sector = loc[t].sector, ![k].dirty = FALSE]} :
       /\ loc' = [loc EXCEPT ![t].write_back = e.dirty,
                             ![t].old_sector = IF e.dirty THEN e.sector ELSE @]
       /\ cache_entries' = es
       /\ cache_hash' = hash_insert(h, es, k)
  /\ pc' = [pc EXCEPT ![t] = "evict_lock"]
  /\ UNCHANGED <<cache_closed_hash, cache_lock, evict_lock,
                 cur_index, list_ext, dev, written, nops, done, free_map>>
  /\ UNCHANGED <<fsRest, openVars, dirVars>>

\* cache_get_entry without evict_lock: lock_release (&cache_lock) only.
CacheEvictLock_free(t) ==
  /\ pc[t] = "evict_lock"
  /\ cache_lock' = NoThread
  /\ pc' = [pc EXCEPT ![t] = "disk"]
  /\ UNCHANGED <<cache_entries, cache_hash, cache_closed_hash, evict_lock,
                 cur_index, list_ext, dev, written, loc, nops, done, free_map>>
  /\ UNCHANGED <<fsRest, openVars, dirVars>>

\* cache_get_entry: lock_acquire (&evict_lock), lock_release (&cache_lock)
CacheEvictLock(t) ==
  /\ pc[t] = "evict_lock"
  /\ evict_lock = NoThread
  /\ evict_lock' = t
  /\ cache_lock' = NoThread
  /\ pc' = [pc EXCEPT ![t] = "disk"]
  /\ UNCHANGED <<cache_entries, cache_hash, cache_closed_hash,
                 cur_index, list_ext, dev, written, loc, nops, done, free_map>>
  /\ UNCHANGED <<fsRest, openVars, dirVars>>

\* cache_get_entry: the write-back, the read, lock_release (&evict_lock) and
\* rw_lock_demote.
CacheDisk(t) ==
  /\ pc[t] = "disk"
  /\ \E k \in {loc[t].ce} :
     \E d \in {IF loc[t].write_back
               THEN [dev EXCEPT ![loc[t].old_sector] = cache_entries[k].data]
               ELSE dev} :
       /\ dev' = d
       /\ cache_entries' = [cache_entries EXCEPT ![k].data = d[loc[t].sector],
                                                 ![k].rw_lock = rw_lock_demote(@, t)]
  /\ evict_lock' = NoThread
  /\ pc' = [pc EXCEPT ![t] = IF loc[t].op = "lock" THEN "promote" ELSE "mark"]
  /\ UNCHANGED <<cache_hash, cache_closed_hash, cache_lock,
                 cur_index, list_ext, written, loc, nops, done, free_map>>
  /\ UNCHANGED <<fsRest, openVars, dirVars>>

\* cache_sector_read / cache_sector_write / cache_sector_add: ce->accessed =
\* pri, and for a write and an add ce->dirty = true.
CacheMark(t) ==
  /\ pc[t] = "mark"
  /\ cache_entries' = [cache_entries EXCEPT
                         ![loc[t].ce].accessed = loc[t].pri,
                         ![loc[t].ce].dirty = IF loc[t].op \in {"write", "add"} THEN TRUE ELSE @]
  /\ loc' = [loc EXCEPT ![t].i = 0]
  /\ pc' = [pc EXCEPT ![t] = "memcpy"]
  /\ UNCHANGED <<cache_hash, cache_closed_hash, cache_lock, evict_lock,
                 cur_index, list_ext, dev, written, nops, done, free_map>>
  /\ UNCHANGED <<fsRest, openVars, dirVars>>

\* memcpy, or the memset of cache_sector_add, one word.
CacheMemcpy(t) ==
  /\ pc[t] = "memcpy"
  /\ \E k \in {loc[t].ce} :
     \E i \in {loc[t].i} :
       /\ IF loc[t].op \in {"write", "add"}
          THEN /\ cache_entries' = [cache_entries EXCEPT ![k].data[i] =
                                      IF loc[t].op = "add" THEN 0 ELSE loc[t].buf[i]]
               /\ loc' = [loc EXCEPT ![t].i = i + 1]
          ELSE /\ loc' = [loc EXCEPT ![t].i = i + 1, ![t].buf[i] = cache_entries[k].data[i]]
               /\ UNCHANGED cache_entries
       /\ pc' = [pc EXCEPT ![t] = IF i + 1 = BLOCK_SECTOR_SIZE THEN "release" ELSE "memcpy"]
  /\ UNCHANGED <<cache_hash, cache_closed_hash, cache_lock, evict_lock,
                 cur_index, list_ext, dev, written, nops, done, free_map>>
  /\ UNCHANGED <<fsRest, openVars, dirVars>>

\* cache_sector_read / cache_sector_write: rw_lock_release_r, unless the
\* thread holds the writer lock.
CacheRelease(t) ==
  /\ pc[t] = "release"
  /\ \E k \in {loc[t].ce} :
       /\ cache_entries' =
            [cache_entries EXCEPT ![k].rw_lock =
               IF @.writer = t THEN @ ELSE rw_lock_release_r(@, t)]
       /\ written' = IF loc[t].op = "write"
                     THEN [written EXCEPT ![loc[t].sector] = cache_entries[k].data]
                     ELSE written
  /\ pc' = [pc EXCEPT ![t] = "idle"]
  /\ UNCHANGED <<cache_hash, cache_closed_hash, cache_lock, evict_lock,
                 cur_index, list_ext, dev, loc, nops, done, free_map>>
  /\ UNCHANGED <<fsRest, openVars, dirVars>>

\* cache_sector_dirty_external: the condition assigns the sector, which is
\* not 0, so every extent is marked.
cache_sector_dirty_external(list, sector) ==
  [j \in 1 .. Len(list) |-> [sector |-> sector, dirty |-> (sector # 0) \/ list[j].dirty]]

\* free_map_allocate (1, &sector) by a user thread.
FreeMapAllocate(t) ==
  /\ pc[t] = "idle"
  /\ pc[MainT] = "idle"
  /\ nops[t] < UserOps
  /\ \E r \in {free_map_allocate(free_map, 1)} :
       /\ free_map' = r.fm
       /\ list_ext' = IF r.ok THEN cache_sector_dirty_external(list_ext, INODE_TABLE_SECTORS)
                      ELSE list_ext
  /\ nops' = [nops EXCEPT ![t] = @ + 1]
  /\ UNCHANGED <<cache_entries, cache_hash, cache_closed_hash, cache_lock, evict_lock,
                 cur_index, dev, written, pc, loc, done>>
  /\ UNCHANGED <<fsRest, openVars, dirVars>>

\* The threads that run cache_flush.
Flushers == {FlushT, MainT}

\* cache_flush_loop: while (!done) cache_flush ()
FlushStart ==
  /\ pc[FlushT] = "idle"
  /\ ~done
  /\ nops[FlushT] < MaxFlush
  /\ nops' = [nops EXCEPT ![FlushT] = @ + 1]
  /\ pc' = [pc EXCEPT ![FlushT] = "flush_ext"]
  /\ UNCHANGED <<cache_entries, cache_hash, cache_closed_hash, cache_lock, evict_lock,
                 cur_index, list_ext, dev, written, loc, done, free_map>>
  /\ UNCHANGED <<fsRest, openVars, dirVars>>

\* The device after the dirty extents are written: an extent's data is the
\* buffer of the free map.
flush_ext(d, list, fm) ==
  [s \in DOMAIN d |-> IF \E j \in 1 .. Len(list) : list[j].dirty /\ list[j].sector = s
                      THEN fm ELSE d[s]]

\* cache_flush: the loop over list_ext.
FlushExt(t) ==
  /\ pc[t] = "flush_ext"
  /\ dev' = flush_ext(dev, list_ext, free_map)
  /\ loc' = [loc EXCEPT ![t].i = 0]
  /\ pc' = [pc EXCEPT ![t] = "flush_acquire"]
  /\ UNCHANGED <<cache_entries, cache_hash, cache_closed_hash, cache_lock, evict_lock,
                 cur_index, list_ext, written, nops, done, free_map>>
  /\ UNCHANGED <<fsRest, openVars, dirVars>>

\* cache_flush: rw_lock_acquire_r on slot i.
FlushAcquire(t) ==
  /\ pc[t] = "flush_acquire"
  /\ rw_lock_free_r(cache_entries[loc[t].i].rw_lock)
  /\ cache_entries' = [cache_entries EXCEPT ![loc[t].i].rw_lock = rw_lock_acquire_r(@, t)]
  /\ pc' = [pc EXCEPT ![t] = "flush_check"]
  /\ UNCHANGED <<cache_hash, cache_closed_hash, cache_lock, evict_lock,
                 cur_index, list_ext, dev, written, loc, nops, done, free_map>>
  /\ UNCHANGED <<fsRest, openVars, dirVars>>

\* cache_flush: if (ce->dirty)
FlushCheck(t) ==
  /\ pc[t] = "flush_check"
  /\ pc' = [pc EXCEPT ![t] = IF cache_entries[loc[t].i].dirty THEN "flush_write"
                             ELSE "flush_release"]
  /\ UNCHANGED <<cache_entries, cache_hash, cache_closed_hash, cache_lock, evict_lock,
                 cur_index, list_ext, dev, written, loc, nops, done, free_map>>
  /\ UNCHANGED <<fsRest, openVars, dirVars>>

\* cache_flush without the block_write of a dirty slot.
FlushWrite_none(t) ==
  /\ pc[t] = "flush_write"
  /\ pc' = [pc EXCEPT ![t] = "flush_clear"]
  /\ UNCHANGED <<cache_entries, cache_hash, cache_closed_hash, cache_lock, evict_lock,
                 cur_index, list_ext, dev, written, loc, nops, done, free_map>>
  /\ UNCHANGED <<fsRest, openVars, dirVars>>

\* cache_flush: block_write (fs_device, ce->sector, &ce->data)
FlushWrite(t) ==
  /\ pc[t] = "flush_write"
  /\ \E e \in {cache_entries[loc[t].i]} : dev' = [dev EXCEPT ![e.sector] = e.data]
  /\ pc' = [pc EXCEPT ![t] = "flush_clear"]
  /\ UNCHANGED <<cache_entries, cache_hash, cache_closed_hash, cache_lock, evict_lock,
                 cur_index, list_ext, written, loc, nops, done, free_map>>
  /\ UNCHANGED <<fsRest, openVars, dirVars>>

\* cache_flush: ce->dirty = false
FlushClear(t) ==
  /\ pc[t] = "flush_clear"
  /\ cache_entries' = [cache_entries EXCEPT ![loc[t].i].dirty = FALSE]
  /\ pc' = [pc EXCEPT ![t] = "flush_release"]
  /\ UNCHANGED <<cache_hash, cache_closed_hash, cache_lock, evict_lock,
                 cur_index, list_ext, dev, written, loc, nops, done, free_map>>
  /\ UNCHANGED <<fsRest, openVars, dirVars>>

\* cache_flush: rw_lock_release_r and the next slot; after the last slot the
\* cache_loop thread sleeps and the main thread goes on in cache_destroy.
FlushRelease(t) ==
  /\ pc[t] = "flush_release"
  /\ cache_entries' = [cache_entries EXCEPT ![loc[t].i].rw_lock = rw_lock_release_r(@, t)]
  /\ loc' = [loc EXCEPT ![t].i = @ + 1]
  /\ pc' = [pc EXCEPT ![t] = IF loc[t].i + 1 < NUM_CACHE_SECTORS THEN "flush_acquire"
                             ELSE IF t = MainT THEN "destroy" ELSE "idle"]
  /\ UNCHANGED <<cache_hash, cache_closed_hash, cache_lock, evict_lock,
                 cur_index, list_ext, dev, written, nops, done, free_map>>
  /\ UNCHANGED <<fsRest, openVars, dirVars>>

\* filesys_done, once no user thread is in a call: free_map_close, that is
\* cache_sector_free_external (INODE_TABLE_SECTORS), whose condition assigns
\* the sector and so takes the first extent; then cache_destroy begins.
FilesysDone ==
  /\ pc[MainT] = "idle"
  /\ \A u \in Users : pc[u] = "idle"
  /\ dev' = IF list_ext[1].dirty THEN [dev EXCEPT ![INODE_TABLE_SECTORS] = free_map] ELSE dev
  /\ list_ext' = Tail(list_ext)
  /\ pc' = [pc EXCEPT ![MainT] = "flush_ext"]
  /\ UNCHANGED <<cache_entries, cache_hash, cache_closed_hash, cache_lock, evict_lock,
                 cur_index, written, loc, nops, done, free_map>>
  /\ UNCHANGED <<fsRest, openVars, dirVars>>

\* cache_destroy after its cache_flush: done = true and the hashes destroyed.
CacheDestroy ==
  /\ pc[MainT] = "destroy"
  /\ done' = TRUE
  /\ cache_hash' = {}
  /\ cache_closed_hash' = {}
  /\ pc' = [pc EXCEPT ![MainT] = "finished"]
  /\ UNCHANGED <<cache_entries, cache_lock, evict_lock,
                 cur_index, list_ext, dev, written, loc, nops, free_map>>
  /\ UNCHANGED <<fsRest, openVars, dirVars>>

CacheNext ==
  \/ \E t \in Users, op \in {"read", "write"}, sector \in CacheSectors, pri \in 0 .. MaxPri :
       CacheBegin(t, op, sector, pri)
  \/ \E t \in Users : CacheLock(t)
  \/ \E t \in Users : CacheLookup(t)
  \/ \E t \in Users : CacheHit(t)
  \/ \E t \in Users : CacheEvict(t)
  \/ \E t \in Users : CacheAcquireW(t)
  \/ \E t \in Users : CacheRehash(t)
  \/ \E t \in Users : CacheEvictLock(t)
  \/ \E t \in Users : CacheDisk(t)
  \/ \E t \in Users : CacheMark(t)
  \/ \E t \in Users : CacheMemcpy(t)
  \/ \E t \in Users : CacheRelease(t)
  \/ \E t \in Users : FreeMapAllocate(t)
  \/ FlushStart
  \/ \E t \in Flushers : FlushExt(t)
  \/ \E t \in Flushers : FlushAcquire(t)
  \/ \E t \in Flushers : FlushCheck(t)
  \/ \E t \in Flushers : FlushWrite(t)
  \/ \E t \in Flushers : FlushClear(t)
  \/ \E t \in Flushers : FlushRelease(t)
  \/ FilesysDone
  \/ CacheDestroy

SpecCache == CacheInit /\ [][CacheNext]_vars

(***************************************************************************)
(* Properties of the buffer cache (specification SpecCache)                *)
(***************************************************************************)
\* C2: when filesys_done has returned, the device holds what the last write
\* to each sector left in the cache, and the free-map bitmap: every dirty
\* slot and the dirty free-map extent have been written.
C2_PersistAcrossShutdown ==
  pc[MainT] = "finished" =>
    /\ \A s \in CacheSectors : dev[s] = written[s]
    /\ dev[INODE_TABLE_SECTORS] = free_map

\* A thread is in the middle of its memcpy on slot k.
InMemcpy(t, op, k) ==
  /\ pc[t] = "memcpy"
  /\ loc[t].op = op
  /\ loc[t].ce = k
  /\ loc[t].i > 0

\* C5: no thread copies out of a slot while another thread is in the memcpy
\* that copies into it, and the words a finished cache_sector_read returned
\* are all from before or all from after a write (a write stores one value
\* in every word of the sector).
C5_NoTornRead ==
  /\ \A r, w \in Users, k \in Slots : ~(InMemcpy(r, "read", k) /\ InMemcpy(w, "write", k))
  /\ \A r \in Users :
       (pc[r] = "idle" /\ loc[r].op = "read") =>
         \A i, j \in 0 .. BLOCK_SECTOR_SIZE - 1 : loc[r].buf[i] = loc[r].buf[j]

\* C6: no two threads are in the memcpy of cache_sector_write on the same
\* slot, and once the writes to a sector have finished the sector holds the
\* words of one writer, never a mixture.
C6_WritesExclusive ==
  /\ \A v, w \in Users, k \in Slots :
       (InMemcpy(v, "write", k) /\ InMemcpy(w, "write", k)) => v = w
  /\ (\A u \in Users : pc[u] = "idle") =>
       \A s \in CacheSectors, i, j \in 0 .. BLOCK_SECTOR_SIZE - 1 :
         written[s][i] = written[s][j]

\* C23: no cached write is lost.  A slot nobody is working on (its rw_lock
\* is free) whose words differ from the sector on the device is dirty; this
\* is what a cache_sector_write that ran during a flush pass must leave too.
C23_NoLostWrite ==
  \A k \in Slots :
    (/\ cache_entries[k].rw_lock = rw_lock_init
     /\ cache_entries[k].sector \in CacheSectors
     /\ cache_entries[k].data # dev[cache_entries[k].sector])
      => cache_entries[k].dirty

(***************************************************************************)
(* The whole interface of the buffer cache (specifications SpecClock and   *)
(* SpecShare).  Besides cache_sector_read and cache_sector_write a thread  *)
(* calls cache_sector_add, cache_sector_lock, cache_sector_unlock,         *)
(* cache_sector_close and cache_sector_remove.  thread_current ()->        *)
(* locked_ce is the field locked_ce of the thread's locals.  The field     *)
(* removed of the variable last holds the sectors for which a              *)
(* cache_sector_remove returned while no other thread was in a call on the *)
(* sector, and on which no call began since; the field dropped holds the   *)
(* sectors that were removed and neither written nor added since.          *)
(*                                                                         *)
(* SpecClock is one thread with the three priorities and three sectors for *)
(* two slots; SpecShare is two threads and the flush thread on two         *)
(* sectors.                                                                *)
(***************************************************************************)
PRI_INODE == 3
PRI_NORMAL == 1
ClockOps == 4                \* calls of the thread of SpecClock
ShareOps == 2                \* calls of each thread of SpecShare

ClockSectors == CacheSectors \cup {Reserved + 2}

\* rw_lock_promote: the reader waits until it is the only reader and becomes
\* the writer.
rw_lock_free_p(l, t) == l.writer = NoThread /\ l.readers = {t}
rw_lock_promote(l, t) == [readers |-> {}, writer |-> t]

\* Some user thread other than t is in a call on the sector.
InCall(t, sector) == \E u \in Users \ {t} : pc[u] # "idle" /\ loc[u].sector = sector

\* filesys_init on a formatted device, as CacheInit, with the cache_loop
\* thread asleep and the set last.removed empty.
ClockInit ==
  /\ itable = FormattedTable
  /\ sec = [s \in Sectors |-> ZeroSector]
  /\ free_map = FormattedMap
  /\ open_inodes = <<>>
  /\ linked = {}
  /\ panic = FALSE
  /\ nwrites = 0
  /\ wr = NoOp
  /\ last = [op |-> "cache", removed |-> {}, dropped |-> {}]
  /\ OpenIdle
  /\ DirIdle
  /\ cache_entries = [k \in Slots |->
                        [sector |-> SECTOR_ERROR, dirty |-> FALSE, accessed |-> 0,
                         data |-> ZeroSector, rw_lock |-> rw_lock_init]]
  /\ cache_hash = {}
  /\ cache_closed_hash = {0}
  /\ cache_lock = NoThread
  /\ evict_lock = NoThread
  /\ cur_index = 0
  /\ list_ext = <<[sector |-> SECTOR_ERROR, dirty |-> FALSE]>>
  /\ dev = [s \in Sectors |-> IF s = INODE_TABLE_SECTORS THEN FormattedMap ELSE ZeroSector]
  /\ written = [s \in ClockSectors |-> ZeroSector]
  /\ pc = [t \in Threads |-> "idle"]
  /\ loc = [t \in Threads |-> IdleLoc]
  /\ nops = [t \in Threads |-> 0]
  /\ done = FALSE

cacheRest == <<itable, sec, open_inodes, linked, panic, nwrites, wr>>

\* A thread enters cache_sector_read, cache_sector_write, cache_sector_add or
\* cache_sector_lock, and with it cache_get_entry: a thread with a locked_ce
\* gets that slot at once (the sector must be the one it locked), any other
\* thread goes on to lock_acquire (&cache_lock).
CacheCall(t, op, sector, pri) ==
  /\ pc[t] = "idle"
  /\ IF loc[t].locked_ce # NoSlot
     THEN /\ op # "lock"
          /\ cache_entries[loc[t].locked_ce].sector = sector
          /\ pc' = [pc EXCEPT ![t] = "mark"]
     ELSE pc' = [pc EXCEPT ![t] = "lock"]
  /\ loc' = [loc EXCEPT ![t] = [IdleLoc EXCEPT !.op = op, !.sector = sector, !.pri = pri,
                                               !.ce = loc[t].locked_ce,
                                               !.locked_ce = loc[t].locked_ce,
                                               !.buf = IF op = "write" THEN UserBuf(t)
                                                       ELSE FreshBuf]]
  /\ nops' = [nops EXCEPT ![t] = @ + 1]
  /\ last' = [last EXCEPT !.removed = @ \ {sector},
                          !.dropped = IF op \in {"write", "add"} THEN @ \ {sector} ELSE @]
  /\ UNCHANGED <<cache_entries, cache_hash, cache_closed_hash, cache_lock, evict_lock,
                 cur_index, list_ext, dev, written, done, free_map>>
  /\ UNCHANGED <<cacheRest, openVars, dirVars>>

\* cache_sector_lock without the promotion: the caller keeps its reader lock.
CachePromote_reader(t) ==
  /\ pc[t] = "promote"
  /\ loc' = [loc EXCEPT ![t].locked_ce = loc[t].ce]
  /\ pc' = [pc EXCEPT ![t] = "idle"]
  /\ UNCHANGED <<cache_entries, cache_hash, cache_closed_hash, cache_lock, evict_lock,
                 cur_index, list_ext, dev, written, nops, done, free_map>>
  /\ UNCHANGED <<fsRest, openVars, dirVars>>

\* cache_sector_lock: rw_lock_promote (&ce->rw_lock), locked_ce = ce
CachePromote(t) ==
  /\ pc[t] = "promote"
  /\ rw_lock_free_p(cache_entries[loc[t].ce].rw_lock, t)
  /\ cache_entries' = [cache_entries EXCEPT ![loc[t].ce].rw_lock = rw_lock_promote(@, t)]
  /\ loc' = [loc EXCEPT ![t].locked_ce = loc[t].ce]
  /\ pc' = [pc EXCEPT ![t] = "idle"]
  /\ UNCHANGED <<cache_hash, cache_closed_hash, cache_lock, evict_lock,
                 cur_index, list_ext, dev, written, nops, done, free_map>>
  /\ UNCHANGED <<fsRest, openVars, dirVars>>

\* cache_sector_unlock (sector) by the thread that locked the sector.
CacheSectorUnlock(t) ==
  /\ pc[t] = "idle"
  /\ loc[t].locked_ce # NoSlot
  /\ cache_entries' = [cache_entries EXCEPT ![loc[t].locked_ce].rw_lock = rw_lock_release_w(@)]
  /\ loc' = [loc EXCEPT ![t].locked_ce = NoSlot]
  /\ UNCHANGED <<cache_hash, cache_closed_hash, cache_lock, evict_lock,
                 cur_index, list_ext, dev, written, pc, nops, done, free_map>>
  /\ UNCHANGED <<fsRest, openVars, dirVars>>

\* cache_sector_close (sector) and cache_sector_remove (sector), that is
\* cache_sector_cr (sector, deleted): all of it is under cache_lock.
CacheSectorCr(t, sector, deleted) ==
  /\ pc[t] = "idle"
  /\ cache_lock = NoThread
  /\ \E k \in {cache_lookup(sector, FALSE)} :
       IF k # NoSlot
       THEN /\ cache_hash' = hash_delete(cache_hash, cache_entries, k)
            /\ cache_closed_hash' = hash_insert(cache_closed_hash, cache_entries, k)
            /\ cache_entries' = [cache_entries EXCEPT ![k].dirty = IF deleted THEN FALSE ELSE @]
       ELSE UNCHANGED <<cache_hash, cache_closed_hash, cache_entries>>
  /\ nops' = [nops EXCEPT ![t] = @ + 1]
  /\ last' = [last EXCEPT !.removed = IF ~deleted THEN @
                                      ELSE IF InCall(t, sector) THEN @ \ {sector}
                                      ELSE @ \cup {sector},
                          !.dropped = IF deleted THEN @ \cup {sector} ELSE @]
  /\ UNCHANGED <<cache_lock, evict_lock, cur_index, list_ext, dev, written, pc, loc, done,
                 free_map>>
  /\ UNCHANGED <<cacheRest, openVars, dirVars>>

ClockT == 1

ClockNext ==
  \/ \E op \in {"read", "write", "add"}, sector \in ClockSectors,
        pri \in PRI_NORMAL .. PRI_INODE :
       nops[ClockT] < ClockOps /\ CacheCall(ClockT, op, sector, pri)
  \/ \E sector \in ClockSectors, deleted \in BOOLEAN :
       nops[ClockT] < ClockOps /\ CacheSectorCr(ClockT, sector, deleted)
  \/ CacheLock(ClockT)
  \/ CacheLookup(ClockT)
  \/ CacheHit(ClockT)
  \/ CacheEvict(ClockT)
  \/ CacheAcquireW(ClockT)
  \/ CacheRehash(ClockT)
  \/ CacheEvictLock(ClockT)
  \/ CacheDisk(ClockT)
  \/ CacheMark(ClockT)
  \/ CacheMemcpy(ClockT)
  \/ CacheRelease(ClockT)

SpecClock == ClockInit /\ [][ClockNext]_vars

ShareNext ==
  \/ \E t \in Users, sector \in CacheSectors :
       nops[t] < ShareOps /\ CacheCall(t, "write", sector, MaxPri)
  \/ \E t \in Users : nops[t] < ShareOps /\ CacheCall(t, "lock", Reserved, MaxPri)
  \/ \E t \in Users, sector \in CacheSectors :
       nops[t] < ShareOps /\ CacheSectorCr(t, sector, TRUE)
  \/ \E t \in Users : CachePromote(t)
  \/ \E t \in Users : CacheSectorUnlock(t)
  \/ \E t \in Users : CacheLock(t)
  \/ \E t \in Users : CacheLookup(t)
  \/ \E t \in Users : CacheHit(t)
  \/ \E t \in Users : CacheEvict(t)
  \/ \E t \in Users : CacheAcquireW(t)
  \/ \E t \in Users : CacheRehash(t)
  \/ \E t \in Users : CacheEvictLock(t)
  \/ \E t \in Users : CacheDisk(t)
  \/ \E t \in Users : CacheMark(t)
  \/ \E t \in Users : CacheMemcpy(t)
  \/ \E t \in Users : CacheRelease(t)
  \/ FlushStart
  \/ FlushExt(FlushT)
  \/ FlushAcquire(FlushT)
  \/ FlushCheck(FlushT)
  \/ FlushWrite(FlushT)
  \/ FlushClear(FlushT)
  \/ FlushRelease(FlushT)

SpecShare == ClockInit /\ [][ShareNext]_vars

\* Specification SpecEvict: two threads and no flush pass.  The first thread
\* reads, writes and closes sectors, so that it evicts dirty slots; the
\* second one makes its calls in the meantime.
EvictOps == 3                \* calls of the first thread of SpecEvict

EvictRoom(t) == nops[t] < (IF t = ClockT THEN EvictOps ELSE UserOps)

EvictNext ==
  \/ \E t \in Users, op \in {"read", "write"}, sector \in CacheSectors :
       EvictRoom(t) /\ CacheCall(t, op, sector, PRI_NORMAL)
  \/ \E sector \in CacheSectors : EvictRoom(ClockT) /\ CacheSectorCr(ClockT, sector, FALSE)
  \/ \E t \in Users : CacheLock(t)
  \/ \E t \in Users : CacheLookup(t)
  \/ \E t \in Users : CacheHit(t)
  \/ \E t \in Users : CacheEvict(t)
  \/ \E t \in Users : CacheAcquireW(t)
  \/ \E t \in Users : CacheRehash(t)
  \/ \E t \in Users : CacheEvictLock(t)
  \/ \E t \in Users : CacheDisk(t)
  \/ \E t \in Users : CacheMark(t)
  \/ \E t \in Users : CacheMemcpy(t)
  \/ \E t \in Users : CacheRelease(t)

SpecEvict == ClockInit /\ [][EvictNext]_vars

\* Specification SpecFlush: one thread and the flush thread; a flush pass and
\* a call of the thread never overlap.
FlushOps == 3                \* calls of the thread of SpecFlush

FlushRoom == pc[FlushT] = "idle" /\ nops[ClockT] < FlushOps

FlushNext ==
  \/ \E op \in {"read", "write", "add"}, sector \in ClockSectors :
       FlushRoom /\ CacheCall(ClockT, op, sector, PRI_NORMAL)
  \/ \E sector \in ClockSectors, deleted \in BOOLEAN :
       FlushRoom /\ CacheSectorCr(ClockT, sector, deleted)
  \/ FlushRoom /\ FreeMapAllocate(ClockT)
  \/ CacheLock(ClockT)
  \/ CacheLookup(ClockT)
  \/ CacheHit(ClockT)
  \/ CacheEvict(ClockT)
  \/ CacheAcquireW(ClockT)
  \/ CacheRehash(ClockT)
  \/ CacheEvictLock(ClockT)
  \/ CacheDisk(ClockT)
  \/ CacheMark(ClockT)
  \/ CacheMemcpy(ClockT)
  \/ CacheRelease(ClockT)
  \/ pc[ClockT] = "idle" /\ FlushStart
  \/ FlushExt(FlushT)
  \/ FlushAcquire(FlushT)
  \/ FlushCheck(FlushT)
  \/ FlushWrite(FlushT)
  \/ FlushClear(FlushT)
  \/ FlushRelease(FlushT)

SpecFlush == ClockInit /\ [][FlushNext]_vars

\* Specification SpecLive: two threads and the flush thread under fair
\* scheduling.  A thread that has locked a sector reads or writes that sector
\* and then unlocks it; a thread that has locked nothing reads, writes, locks
\* and closes.  Every thread that can take a step takes one in the end.
LiveOps == 2                 \* calls of each thread of SpecLive

LiveStep(t) ==
  \/ \E op \in {"write", "lock"} :
       nops[t] < LiveOps /\ CacheCall(t, op, Reserved, PRI_NORMAL)
  \/ nops[t] < LiveOps /\ loc[t].locked_ce = NoSlot
       /\ CacheCall(t, "read", Reserved + 1, PRI_NORMAL)
  \/ nops[t] < LiveOps /\ loc[t].locked_ce = NoSlot /\ CacheSectorCr(t, Reserved, FALSE)
  \/ CachePromote(t)
  \/ CacheSectorUnlock(t)
  \/ CacheLock(t)
  \/ CacheLookup(t)
  \/ CacheHit(t)
  \/ CacheEvict(t)
  \/ CacheAcquireW(t)
  \/ CacheRehash(t)
  \/ CacheEvictLock(t)
  \/ CacheDisk(t)
  \/ CacheMark(t)
  \/ CacheMemcpy(t)
  \/ CacheRelease(t)

LiveFlush ==
  \/ FlushStart
  \/ FlushExt(FlushT)
  \/ FlushAcquire(FlushT)
  \/ FlushCheck(FlushT)
  \/ FlushWrite(FlushT)
  \/ FlushClear(FlushT)
  \/ FlushRelease(FlushT)

LiveNext ==
  \/ \E t \in Users : LiveStep(t)
  \/ LiveFlush

SpecLive ==
  /\ ClockInit
  /\ [][LiveNext]_vars
  /\ \A t \in Users : WF_vars(LiveStep(t))
  /\ WF_vars(LiveFlush)

(***************************************************************************)
(* Properties of the cache interface (SpecClock, SpecShare)                *)
(***************************************************************************)
\* Thread u is past cache_evict or a lookup with slot k and works on it.
WorksOn(u, k) ==
  /\ loc[u].ce = k
  /\ pc[u] \in {"rehash", "evict_lock", "disk", "mark", "memcpy", "release", "promote"}

\* The flush thread holds slot k and tests or writes it.
FlushesSlot(k) ==
  /\ loc[FlushT].i = k
  /\ pc[FlushT] \in {"flush_check", "flush_write", "flush_clear", "flush_release"}

C29_RemovedNotWritten ==
  [][\A s \in last.removed \cap last'.removed : dev'[s] = dev[s]]_vars

\* C26: whenever no thread holds cache_lock, every slot is in exactly one of
\* cache_hash and cache_closed_hash, and no sector is the sector of two
\* slots.
C26_OneIndexPerSlot ==
  cache_lock = NoThread =>
    /\ \A k \in Slots : (k \in cache_hash) # (k \in cache_closed_hash)
    /\ \A j, k \in Slots :
         (cache_entries[j].sector # SECTOR_ERROR
            /\ cache_entries[j].sector = cache_entries[k].sector) => j = k

\* C27: closed slots are evicted before active ones: a cache_evict that
\* finds the closed hash non-empty takes its victim from it, and the clock
\* hand moves only when the closed hash is empty.
C27_ClosedFirst ==
  [][/\ cur_index' # cur_index => cache_closed_hash = {}
     /\ \A t \in Users :
          (pc[t] = "evict" /\ pc'[t] # "evict" /\ cache_closed_hash # {})
            => (pc'[t] = "acquire_w" /\ loc'[t].ce \in cache_closed_hash)]_vars

\* A miss took a slot that held a sector from the closed hash while the slot
\* the clock hand would have come to was an active one that nobody holds.
C27_Witness ==
  /\ pc[ClockT] = "acquire_w"
  /\ cache_entries[loc[ClockT].ce].sector \in ClockSectors
  /\ \E j \in cache_hash :
       /\ j = (cur_index + 1) % NUM_CACHE_SECTORS
       /\ rw_lock_free_w(cache_entries[j].rw_lock)

\* Thread t makes a turn of the clock loop of cache_evict in this step.
ClockTurn(t) ==
  /\ pc[t] = "evict"
  /\ cache_closed_hash = {}
  /\ pc'[t] # pc[t] \/ cur_index' # cur_index

C30_AddWithoutRead ==
  /\ [][\A t \in Users : (pc[t] = "disk" /\ pc'[t] # "disk") => loc[t].op # "add"]_vars
  /\ [](\A t \in Users :
          (pc[t] = "release" /\ loc[t].op = "add") =>
            /\ cache_entries[loc[t].ce].sector = loc[t].sector
            /\ cache_entries[loc[t].ce].data = ZeroSector
            /\ cache_entries[loc[t].ce].dirty
            /\ cache_entries[loc[t].ce].accessed = loc[t].pri)

\* Thread u has taken a dirty slot of the sector as its victim and has not
\* yet written it back.
WritesBack(u, sector) ==
  /\ pc[u] \in {"evict_lock", "disk"}
  /\ loc[u].write_back
  /\ loc[u].old_sector = sector

FlushStep == pc'[FlushT] # pc[FlushT] \/ loc'[FlushT] # loc[FlushT]

\* A step of a flush pass changes no slot's sector, data or index; the pass
\* holds the slot's reader lock while it tests, writes and clears; its write
\* puts the slot's bytes at the slot's sector; and when a pass that no call
\* overlapped ends, no slot is dirty, every cached sector outside the set
\* except is on the device as in its slot, and so is every dirty extent.
FlushPass(except) ==
  FlushStep =>
    /\ cache_hash' = cache_hash
    /\ cache_closed_hash' = cache_closed_hash
    /\ \A k \in Slots : /\ cache_entries'[k].sector = cache_entries[k].sector
                        /\ cache_entries'[k].data = cache_entries[k].data
    /\ pc[FlushT] \in {"flush_check", "flush_write", "flush_clear", "flush_release"}
         => FlushT \in cache_entries[loc[FlushT].i].rw_lock.readers
    /\ pc[FlushT] = "flush_write"
         => dev'[cache_entries[loc[FlushT].i].sector] = cache_entries[loc[FlushT].i].data
    /\ (pc[FlushT] = "flush_release" /\ pc'[FlushT] = "idle")
         => /\ \A k \in Slots :
                 /\ ~cache_entries'[k].dirty
                 /\ cache_entries'[k].sector \in ClockSectors \ except
                      => dev'[cache_entries'[k].sector] = cache_entries'[k].data
            /\ \A j \in 1 .. Len(list_ext) :
                 list_ext[j].dirty => dev'[list_ext[j].sector] = free_map

C33_CallsReturn == \A t \in Users \cup {FlushT} : (pc[t] # "idle") ~> (pc[t] = "idle")

\* Both threads are in cache_sector_lock on the same slot as readers.
C33_BothPromote ==
  \E t \in Users, u \in Users :
    /\ t # u
    /\ pc[t] = "promote" /\ pc[u] = "promote"
    /\ loc[t].ce = loc[u].ce

(***************************************************************************)
(* Threads in inode_open and inode_close (specification SpecOpen).         *)
(*                                                                         *)
(* Neither function takes a lock, and its callers hold none.  A struct     *)
(* inode is known by its address, the field id.  inode->open_cnt++ and     *)
(* --inode->open_cnt are a load and a store.  A thread that reaches a      *)
(* struct inode another thread has freed stops at "uaf".                   *)
(***************************************************************************)
NumOpeners == 2
OpenOps == 2

Openers == 1 .. NumOpeners
\* NULL, where a struct inode * is expected.
NoInode == 0

IdleOpen == [inumber |-> 0, inode |-> NoInode, tmp |-> 0, n |-> 0]

\* Position in the list of the struct inode at this address, 0 if freed.
PtrIdx(list, id) ==
  LET ks == {k \in 1 .. Len(list) : list[k].id = id}
  IN IF ks = {} THEN 0 ELSE CHOOSE k \in ks : TRUE

\* A formatted file system with one file, no inode open.
OpenInit ==
  /\ itable = inode_create(FormattedTable, 1, 0)
  /\ sec = FormattedSectors
  /\ free_map = FormattedMap
  /\ open_inodes = <<>>
  /\ linked = {1}
  /\ panic = FALSE
  /\ nwrites = 0
  /\ wr = NoOp
  /\ last = NoOp
  /\ CacheIdle
  /\ DirIdle
  /\ opc = [t \in Openers |-> "idle"]
  /\ oloc = [t \in Openers |-> IdleOpen]

\* A thread enters inode_open (inumber).
OpenBegin(t, inumber) ==
  /\ opc[t] = "idle"
  /\ oloc[t].n < OpenOps
  /\ oloc' = [oloc EXCEPT ![t] = [inumber |-> inumber, inode |-> NoInode, tmp |-> 0,
                                  n |-> @.n + 1]]
  /\ opc' = [opc EXCEPT ![t] = "scan"]
  /\ UNCHANGED <<fsVars, cacheVars, dirVars>>

\* inode_open: the loop over open_inodes.
OpenScan(t) ==
  /\ opc[t] = "scan"
  /\ \E k \in {HandleIdx(open_inodes, oloc[t].inumber)} :
       IF k # 0
       THEN /\ oloc' = [oloc EXCEPT ![t].inode = open_inodes[k].id]
            /\ opc' = [opc EXCEPT ![t] = "reopen_load"]
       ELSE /\ opc' = [opc EXCEPT ![t] = "malloc"]
            /\ UNCHANGED oloc
  /\ UNCHANGED <<fsVars, cacheVars, dirVars>>

\* inode_reopen: the load of inode->open_cnt++
ReopenLoad(t) ==
  /\ opc[t] = "reopen_load"
  /\ \E k \in {PtrIdx(open_inodes, oloc[t].inode)} :
       IF k = 0
       THEN /\ opc' = [opc EXCEPT ![t] = "uaf"]
            /\ UNCHANGED oloc
       ELSE /\ oloc' = [oloc EXCEPT ![t].tmp = open_inodes[k].open_cnt]
            /\ opc' = [opc EXCEPT ![t] = "reopen_store"]
  /\ UNCHANGED <<fsVars, cacheVars, dirVars>>

\* inode_reopen: the store of inode->open_cnt++, and the return.
ReopenStore(t) ==
  /\ opc[t] = "reopen_store"
  /\ \E k \in {PtrIdx(open_inodes, oloc[t].inode)} :
       IF k = 0
       THEN /\ opc' = [opc EXCEPT ![t] = "uaf"]
            /\ UNCHANGED open_inodes
       ELSE /\ open_inodes' = [open_inodes EXCEPT ![k].open_cnt = oloc[t].tmp + 1]
            /\ opc' = [opc EXCEPT ![t] = "opened"]
  /\ UNCHANGED <<itable, sec, free_map, linked, panic, nwrites, wr, last, oloc>>
  /\ UNCHANGED <<cacheVars, dirVars>>

\* inode_open: malloc; if it succeeds, list_push_front, the initialisation
\* and the read of the inode's table entry.
OpenNew(t, ok) ==
  /\ opc[t] = "malloc"
  /\ IF ok
     THEN \E id \in {NumOpeners * oloc[t].n + t} :
            /\ open_inodes' =
                 <<[id |-> id, inumber |-> oloc[t].inumber, open_cnt |-> 1,
                    deny_write_cnt |-> 0, removed |-> FALSE,
                    data |-> itable[oloc[t].inumber]]>> \o open_inodes
            /\ oloc' = [oloc EXCEPT ![t].inode = id]
            /\ opc' = [opc EXCEPT ![t] = "opened"]
     ELSE /\ opc' = [opc EXCEPT ![t] = "idle"]
          /\ UNCHANGED <<open_inodes, oloc>>
  /\ UNCHANGED <<itable, sec, free_map, linked, panic, nwrites, wr, last>>
  /\ UNCHANGED <<cacheVars, dirVars>>

\* inode_close: the load of --inode->open_cnt
CloseLoad(t) ==
  /\ opc[t] = "opened"
  /\ \E k \in {PtrIdx(open_inodes, oloc[t].inode)} :
       IF k = 0
       THEN /\ opc' = [opc EXCEPT ![t] = "uaf"]
            /\ UNCHANGED oloc
       ELSE /\ oloc' = [oloc EXCEPT ![t].tmp = open_inodes[k].open_cnt]
            /\ opc' = [opc EXCEPT ![t] = "close_store"]
  /\ UNCHANGED <<fsVars, cacheVars, dirVars>>

\* inode_close: the store of --inode->open_cnt and, at 0, list_remove, the
\* release of a removed inode and free.
CloseStore(t) ==
  /\ opc[t] = "close_store"
  /\ \E k \in {PtrIdx(open_inodes, oloc[t].inode)} :
       IF k = 0
       THEN /\ opc' = [opc EXCEPT ![t] = "uaf"]
            /\ UNCHANGED <<open_inodes, itable, sec, free_map, panic, oloc>>
       ELSE \E h \in {open_inodes[k]} :
            \E r \in {inode_close([open_inodes EXCEPT ![k].open_cnt = oloc[t].tmp], k,
                                  Ctx(h.inumber, h.data))} :
              /\ open_inodes' = r.list
              /\ itable' = r.c.it
              /\ sec' = r.c.sec
              /\ free_map' = r.c.fm
              /\ panic' = r.c.panic
              /\ oloc' = [oloc EXCEPT ![t].inode = NoInode]
              /\ opc' = [opc EXCEPT ![t] = "idle"]
  /\ UNCHANGED <<linked, nwrites, wr, last>>
  /\ UNCHANGED <<cacheVars, dirVars>>

OpenNext ==
  \/ \E t \in Openers, inumber \in Inums : OpenBegin(t, inumber)
  \/ \E t \in Openers : OpenScan(t)
  \/ \E t \in Openers : ReopenLoad(t)
  \/ \E t \in Openers : ReopenStore(t)
  \/ \E t \in Openers, ok \in BOOLEAN : OpenNew(t, ok)
  \/ \E t \in Openers : CloseLoad(t)
  \/ \E t \in Openers : CloseStore(t)

SpecOpen == OpenInit /\ [][OpenNext]_vars

(***************************************************************************)
(* Properties of the open-inode list (specification SpecOpen)              *)
(***************************************************************************)
\* The threads that hold the struct inode at this address.
Holders(id) == {t \in Openers : opc[t] = "opened" /\ oloc[t].inode = id}

\* C7: open_inodes never holds two struct inode with one inumber, no thread
\* is handed a struct inode that has been freed, and when no thread is
\* inside inode_open or inode_close the open_cnt of every struct inode is
\* the number of opens of it that have not been closed.
C7_OneHandlePerInumber ==
  /\ \A j, k \in 1 .. Len(open_inodes) :
       open_inodes[j].inumber = open_inodes[k].inumber => j = k
  /\ \A t \in Openers : opc[t] # "uaf"
  /\ (\A t \in Openers : opc[t] \in {"idle", "opened"}) =>
       \A k \in 1 .. Len(open_inodes) :
         open_inodes[k].open_cnt = Cardinality(Holders(open_inodes[k].id))

(***************************************************************************)
(* Specification SpecDir: directories and path resolution, one call at a   *)
(* time.  Directory entries are stored in the inode's data through         *)
(* inode_read_at and inode_write_at; one entry occupies EntrySize words.   *)
(* A struct dir is identified by the inumber of its struct inode, NoDir is *)
(* a null pointer.  A string is a sequence of characters.                  *)
(***************************************************************************)
NAME_MAX == 2                \* 14 in the source
EntrySize == 1               \* sizeof (struct dir_entry), in words
DirInodes == 4               \* entries of the inode table
DirMaxOpen == 3              \* bound on open_cnt before a call
DirMaxWrites == 1            \* bound on the writes to files
DirMaxCalls == 5             \* bound on the calls of a run

DirInums == 0 .. DirInodes - 1
current_str == <<".">>
parent_str == <<".", ".">>
NoName == <<"/">>            \* NULL, where a char * is expected

\* The bytes of a character; 0 terminates a string.
CharCode(ch) == IF ch = "." THEN 1 ELSE IF ch = "a" THEN 2 ELSE IF ch = "b" THEN 3 ELSE 4
CodeChar(n) == IF n = 1 THEN "." ELSE IF n = 2 THEN "a" ELSE IF n = 3 THEN "b" ELSE "/"
CharSpan == 5
InumSpan == 8
NameSpan == Pow(CharSpan, NAME_MAX)

\* char name[NAME_MAX + 1] as a number, and back (up to the terminator).
RECURSIVE NameCode(_)
NameCode(name) ==
  IF name = <<>> THEN 0 ELSE CharCode(Head(name)) + CharSpan * NameCode(Tail(name))

RECURSIVE CodeName(_)
CodeName(n) ==
  IF n % CharSpan = 0 THEN <<>> ELSE <<CodeChar(n % CharSpan)>> \o CodeName(n \div CharSpan)

\* struct dir_entry as the word stored in the directory, and back.
EntryWord(e) ==
  e.inumber + InumSpan * (NameCode(e.name) + NameSpan * (IF e.in_use THEN 1 ELSE 0))

WordEntry(x) ==
  [inumber |-> x % InumSpan,
   name |-> CodeName((x \div InumSpan) % NameSpan),
   in_use |-> (x \div (InumSpan * NameSpan)) % 2 = 1]

\* strrchr (name, '/'): the position of the last '/', 0 if there is none.
strrchr(name) ==
  LET ps == {i \in 1 .. Len(name) : name[i] = "/"}
  IN IF ps = {} THEN 0 ELSE CHOOSE i \in ps : \A j \in ps : j <= i

\* dir_file (name): ofs is the position before the returned pointer.
dir_file(name) ==
  Bind(strrchr(name), LAMBDA begin :
    IF begin = 0 THEN [ok |-> TRUE, ofs |-> 0, file |-> name]
    ELSE IF Len(name) - begin = 0 \/ Len(name) - begin > NAME_MAX
    THEN [ok |-> FALSE, ofs |-> 0, file |-> NoName]
    ELSE [ok |-> TRUE, ofs |-> begin, file |-> SubSeq(name, begin + 1, Len(name))])

\* The tokens strtok_r (path, "/", &saved) returns, in order.
RECURSIVE strtok_r(_)
strtok_r(path) ==
  IF path = <<>> THEN <<>>
  ELSE IF Head(path) = "/" THEN strtok_r(Tail(path))
  ELSE LET ends == {i \in 1 .. Len(path) : path[i] = "/"}
           n == IF ends = {} THEN Len(path) + 1 ELSE CHOOSE i \in ends : \A j \in ends : i <= j
       IN <<SubSeq(path, 1, n - 1)>> \o strtok_r(SubSeq(path, n, Len(path)))

\* The state a call works on: w.list the open inodes, w.it the inode table,
\* w.sec the sectors, w.fm the free map, w.isdir the is_dir flags, w.cwd the
\* caller's cwd, w.panic.
World ==
  [list |-> open_inodes, it |-> itable, sec |-> sec, fm |-> free_map, isdir |-> is_dir,
   cwd |-> cwd, panic |-> panic]

\* The context of the inode layer for the struct inode at position k.
WCtx(w, k) ==
  [ino |-> w.list[k].inumber, data |-> w.list[k].data, fm |-> w.fm, sec |-> w.sec,
   it |-> w.it, panic |-> w.panic]

WPut(w, k, c) ==
  [w EXCEPT !.list[k].data = c.data, !.it = c.it, !.sec = c.sec, !.fm = c.fm,
            !.panic = c.panic]

\* inode_is_dir (inode)
inode_is_dir(w, inumber) == w.isdir[inumber]

\* inode_is_removed (inode)
inode_is_removed(list, k) == list[k].removed

\* dir_open (inode_open (inumber)) and dir_open (inode_reopen (dir->inode))
dir_open(w, inumber) == [w EXCEPT !.list = inode_open(w.list, w.it, inumber)]

dir_open_root(w) == dir_open(w, ROOT_DIR_INUMBER)

dir_reopen(w, dir) == [w EXCEPT !.list = inode_reopen(w.list, HandleIdx(w.list, dir))]

\* dir_close (dir): inode_close (dir->inode); a null pointer is ignored.
dir_close(w, dir) ==
  IF dir = NoDir THEN w
  ELSE Bind(HandleIdx(w.list, dir), LAMBDA k :
       Bind(inode_close(w.list, k, WCtx(w, k)), LAMBDA r :
         [w EXCEPT !.list = r.list, !.it = r.c.it, !.sec = r.c.sec, !.fm = r.c.fm,
                   !.panic = r.c.panic]))

\* inode_read_at (dir->inode, &e, sizeof e, ofs): ok is "== sizeof e".
read_entry(w, dir, ofs) ==
  Bind(HandleIdx(w.list, dir), LAMBDA k :
  Bind(inode_read_at(WCtx(w, k), EntrySize, ofs), LAMBDA r :
    [ok |-> r.ret = EntrySize /\ ~r.c.panic,
     e |-> IF r.ret = EntrySize /\ ~r.c.panic THEN WordEntry(r.out[1]) ELSE WordEntry(0),
     w |-> WPut(w, k, r.c)]))

\* inode_write_at (dir->inode, &e, sizeof e, ofs): ok is "== sizeof e".
write_entry(w, dir, e, ofs) ==
  Bind(HandleIdx(w.list, dir), LAMBDA k :
  Bind(inode_write_at(WCtx(w, k), w.list[k].deny_write_cnt, <<EntryWord(e)>>, EntrySize, ofs),
       LAMBDA r : [ok |-> r.ret = EntrySize /\ ~r.c.panic, w |-> WPut(w, k, r.c)]))

\* lookup (dir, name, ep, ofsp): the scan from offset ofs on.
RECURSIVE lookup_from(_, _, _, _)
lookup_from(w, dir, name, ofs) ==
  Bind(read_entry(w, dir, ofs), LAMBDA r :
    IF ~r.ok THEN [ok |-> FALSE, e |-> r.e, ofs |-> ofs, w |-> r.w]
    ELSE IF r.e.in_use /\ r.e.name = name THEN [ok |-> TRUE, e |-> r.e, ofs |-> ofs, w |-> r.w]
    ELSE Bind(ofs + EntrySize, LAMBDA n : lookup_from(r.w, dir, name, n)))

lookup(w, dir, name) == lookup_from(w, dir, name, 0)

\* dir_is_empty (dir): the scan from offset ofs on, success so far.
RECURSIVE dir_is_empty_from(_, _, _, _)
dir_is_empty_from(w, dir, ofs, success) ==
  Bind(read_entry(w, dir, ofs), LAMBDA r :
    IF ~r.ok THEN [ok |-> success, w |-> r.w]
    ELSE Bind(<<ofs + EntrySize,
                success /\ ~(r.e.in_use /\ r.e.name # current_str /\ r.e.name # parent_str)>>,
              LAMBDA n : dir_is_empty_from(r.w, dir, n[1], n[2])))

\* dir_is_empty that reports every directory as empty.
dir_is_empty_always(w, dir) == [ok |-> TRUE, w |-> w]

dir_is_empty(w, dir) == dir_is_empty_from(w, dir, 0, TRUE)

\* dir_is_removed that reports no directory as removed.
dir_is_removed_never(w, dir) == FALSE

\* dir_is_removed (dir)
dir_is_removed(w, dir) == inode_is_removed(w.list, HandleIdx(w.list, dir))

\* dir_lookup (dir, name, &inode): inode is the inumber of the opened inode.
dir_lookup(w, dir, name) ==
  IF dir_is_removed(w, dir) THEN [ok |-> FALSE, inode |-> NoDir, w |-> w]
  ELSE Bind(lookup(w, dir, name), LAMBDA r :
         IF r.ok THEN [ok |-> TRUE, inode |-> r.e.inumber, w |-> dir_open(r.w, r.e.inumber)]
         ELSE [ok |-> FALSE, inode |-> NoDir, w |-> r.w])

\* The loop of dir_add that sets ofs to the offset of a free slot.
RECURSIVE free_slot(_, _, _)
free_slot(w, dir, ofs) ==
  Bind(read_entry(w, dir, ofs), LAMBDA r :
    IF ~r.ok \/ ~r.e.in_use THEN [ofs |-> ofs, w |-> r.w]
    ELSE Bind(ofs + EntrySize, LAMBDA n : free_slot(r.w, dir, n)))

\* dir_add (dir, name, inumber)
dir_add(w, dir, name, inumber) ==
  IF name = <<>> \/ Len(name) > NAME_MAX THEN [ok |-> FALSE, w |-> w]
  ELSE IF dir_is_removed(w, dir) THEN [ok |-> FALSE, w |-> w]
  ELSE Bind(lookup(w, dir, name), LAMBDA l :
         IF l.ok THEN [ok |-> FALSE, w |-> l.w]
         ELSE Bind(free_slot(l.w, dir, 0), LAMBDA s :
              Bind(write_entry(s.w, dir, [in_use |-> TRUE, name |-> name, inumber |-> inumber],
                               s.ofs),
                   LAMBDA wr1 : [ok |-> wr1.ok, w |-> read_entry(wr1.w, dir, s.ofs).w])))

\* dir_remove (dir, name)
dir_remove(w, dir, name) ==
  Bind(lookup(w, dir, name), LAMBDA l :
    IF ~l.ok THEN [ok |-> FALSE, w |-> l.w]
    ELSE
    Bind(dir_open(l.w, l.e.inumber), LAMBDA w1 :
    Bind(IF inode_is_dir(w1, l.e.inumber) THEN dir_is_empty(w1, l.e.inumber)
         ELSE [ok |-> TRUE, w |-> w1], LAMBDA m :
      IF ~m.ok THEN [ok |-> FALSE, w |-> dir_close(m.w, l.e.inumber)]
      ELSE Bind(write_entry(m.w, dir, [l.e EXCEPT !.in_use = FALSE], l.ofs), LAMBDA wr1 :
             IF ~wr1.ok THEN [ok |-> FALSE, w |-> dir_close(wr1.w, l.e.inumber)]
             ELSE Bind([wr1.w EXCEPT !.list =
                          inode_remove(@, HandleIdx(wr1.w.list, l.e.inumber))],
                       LAMBDA w2 : [ok |-> TRUE, w |-> dir_close(w2, l.e.inumber)])))))

\* dir_create (sector, parent)
dir_create(w, sector, parent) ==
  Bind([w EXCEPT !.it = inode_create(w.it, sector, 2 * EntrySize), !.isdir[sector] = TRUE],
       LAMBDA w0 :
  Bind(dir_open(w0, sector), LAMBDA w1 :
  Bind(dir_add(w1, sector, current_str, sector), LAMBDA a :
  Bind(IF a.ok THEN dir_add(a.w, sector, parent_str, parent) ELSE a, LAMBDA b :
    [ok |-> b.ok, w |-> dir_close(b.w, sector)]))))

\* The strtok_r loop of dir_fetch over the tokens toks[i ..].
RECURSIVE fetch_loop(_, _, _, _)
fetch_loop(w, cur_dir, toks, i) ==
  IF i > Len(toks) THEN [dir |-> cur_dir, w |-> w]
  ELSE Bind(dir_lookup(w, cur_dir, toks[i]), LAMBDA r :
         IF r.ok
         THEN Bind(<<dir_close(r.w, cur_dir), i + 1>>,
                   LAMBDA n : fetch_loop(n[1], r.inode, toks, n[2]))
         ELSE [dir |-> NoDir, w |-> dir_close(r.w, cur_dir)])

\* dir_fetch (name, &file) when want_file, dir_fetch (name, NULL) otherwise.
dir_fetch(w, name, want_file) ==
  IF Len(name) = 0 THEN [dir |-> NoDir, file |-> NoName, w |-> w]
  ELSE
  Bind(IF name[1] = "/" THEN dir_open_root(w)
       ELSE dir_reopen(IF w.cwd = NoDir
                       THEN [dir_open_root(w) EXCEPT !.cwd = ROOT_DIR_INUMBER] ELSE w,
                       IF w.cwd = NoDir THEN ROOT_DIR_INUMBER ELSE w.cwd),
       LAMBDA w1 :
  Bind(IF name[1] = "/" THEN ROOT_DIR_INUMBER ELSE w1.cwd, LAMBDA cur_dir :
    IF name[1] = "/" /\ Len(name) = 1
    THEN [dir |-> cur_dir, file |-> IF want_file THEN current_str ELSE NoName, w |-> w1]
    ELSE
    Bind(IF want_file THEN dir_file(name)
         ELSE [ok |-> TRUE, ofs |-> Len(name), file |-> NoName], LAMBDA path_end :
      IF ~path_end.ok THEN [dir |-> NoDir, file |-> NoName, w |-> w1]
      ELSE Bind(fetch_loop(w1, cur_dir, strtok_r(SubSeq(name, 1, path_end.ofs)), 1),
                LAMBDA f : [dir |-> f.dir,
                            file |-> IF f.dir # NoDir THEN path_end.file ELSE NoName,
                            w |-> f.w]))))

\* filesys_create (name, initial_size).  added: dir_add was called; removed:
\* the directory it was called on had removed set; same: it returned with the
\* state it found.
filesys_create(w, name, initial_size) ==
  Bind(dir_fetch(w, name, TRUE), LAMBDA f :
  Bind(IF f.dir # NoDir THEN inode_assign_inumber(f.w.it)
       ELSE [ok |-> FALSE, inumber |-> 0, it |-> f.w.it], LAMBDA a :
  Bind([f.w EXCEPT !.it = IF a.ok THEN inode_create(a.it, a.inumber, initial_size) ELSE a.it,
                   !.isdir = IF a.ok THEN [@ EXCEPT ![a.inumber] = FALSE] ELSE @], LAMBDA w0 :
  Bind(IF a.ok THEN dir_add(w0, f.dir, f.file, a.inumber) ELSE [ok |-> FALSE, w |-> w0],
       LAMBDA d :
  Bind(IF ~d.ok /\ a.inumber # 0
       THEN [d.w EXCEPT !.it = inode_release_inumber(@, a.inumber)] ELSE d.w, LAMBDA w1 :
    [ok |-> d.ok, inumber |-> a.inumber, dir |-> f.dir, added |-> a.ok,
     removed |-> a.ok /\ inode_is_removed(w0.list, HandleIdx(w0.list, f.dir)),
     same |-> d.w = w0, w |-> dir_close(w1, f.dir)])))))

\* filesys_create (name, 0, is_dir = true): the directory is made by dir_create
\* with the directory of the path as its parent.
filesys_mkdir(w, name) ==
  Bind(dir_fetch(w, name, TRUE), LAMBDA f :
  Bind(IF f.dir # NoDir THEN inode_assign_inumber(f.w.it)
       ELSE [ok |-> FALSE, inumber |-> 0, it |-> f.w.it], LAMBDA a :
  Bind(IF a.ok THEN dir_create([f.w EXCEPT !.it = a.it], a.inumber, f.dir)
       ELSE [ok |-> FALSE, w |-> [f.w EXCEPT !.it = a.it]], LAMBDA c :
  Bind(IF c.ok THEN dir_add(c.w, f.dir, f.file, a.inumber) ELSE c, LAMBDA d :
  Bind(IF ~d.ok /\ a.inumber # 0
       THEN [d.w EXCEPT !.it = inode_release_inumber(@, a.inumber)] ELSE d.w, LAMBDA w1 :
    [ok |-> d.ok, inumber |-> a.inumber, dir |-> f.dir, w |-> dir_close(w1, f.dir)])))))

\* filesys_open (name): inode is the inumber of the inode handed to file_open.
\* removed: the directory dir_lookup was called on had removed set; same:
\* dir_lookup returned with the state it found.
filesys_open(w, name) ==
  Bind(dir_fetch(w, name, TRUE), LAMBDA f :
    IF f.dir = NoDir
    THEN [ok |-> FALSE, inode |-> NoDir, dir |-> NoDir, removed |-> FALSE, same |-> TRUE,
          w |-> f.w]
    ELSE Bind(dir_lookup(f.w, f.dir, f.file), LAMBDA l :
           [ok |-> l.ok, inode |-> l.inode, dir |-> f.dir,
            removed |-> inode_is_removed(f.w.list, HandleIdx(f.w.list, f.dir)),
            same |-> l.w = f.w, w |-> dir_close(l.w, f.dir)]))

\* filesys_remove (name); same: dir_remove returned with the state it found.
filesys_remove(w, name) ==
  Bind(dir_fetch(w, name, TRUE), LAMBDA f :
    IF f.dir = NoDir THEN [ok |-> FALSE, dir |-> NoDir, same |-> TRUE, w |-> f.w]
    ELSE Bind(dir_remove(f.w, f.dir, f.file), LAMBDA r :
           [ok |-> r.ok, dir |-> f.dir, same |-> r.w = f.w, w |-> dir_close(r.w, f.dir)]))

\* chdir (name): the directory of the whole path replaces the caller's cwd.
filesys_chdir(w, name) ==
  Bind(dir_fetch(w, name, FALSE), LAMBDA f :
    IF f.dir = NoDir THEN [ok |-> FALSE, w |-> f.w]
    ELSE [ok |-> TRUE, w |-> [dir_close(f.w, f.w.cwd) EXCEPT !.cwd = f.dir]])

\* The paths calls are made with: the root, a name in the root, the same with
\* a trailing slash, a name below it, its "." entry, relative names, the
\* parent, and a name longer than NAME_MAX.
CreatePaths == {<<"/", "a">>, <<"/", "a", "/">>, <<"/", "a", "/", "b">>, <<"b">>, <<"a", "a", "a">>}
MkdirPaths == {<<"/", "a">>}
OpenPaths == {<<"/">>, <<"/", "a">>, <<"/", "a", "/">>, <<"/", "a", "/", "b">>, <<"b">>}
RemovePaths == {<<"/">>, <<"/", "a">>, <<"/", "a", "/", ".">>, <<"/", "a", "/", "b">>, <<"b">>}
ChdirPaths == {<<"/", "a">>, <<".", ".">>}
CreateSizes == {0, 1}

\* The calls on CrcPath so far: stage 1 after a filesys_create of it returned
\* true (first is the inumber it got), with opens, closes and writes of that
\* file since; stage 2 after a filesys_remove of it then returned true; stage
\* 3 after the filesys_create that followed returned true.
CrcPath == <<"/", "a">>
NoCrc == [stage |-> 0, first |-> NoDir]
CrcStep(l) ==
  IF l.op = "create" /\ l.name = CrcPath
  THEN IF ~l.ret THEN NoCrc
       ELSE IF crc.stage = 2 THEN [crc EXCEPT !.stage = 3]
       ELSE [stage |-> 1, first |-> l.inumber]
  ELSE IF l.op = "remove" /\ l.name = CrcPath
  THEN IF crc.stage = 1 /\ l.ret THEN [crc EXCEPT !.stage = 2] ELSE NoCrc
  ELSE IF l.op \in {"open", "close", "write"} /\ crc.stage = 1 /\ l.inumber = crc.first
  THEN crc
  ELSE NoCrc

\* do_format: free_map_create and dir_create (ROOT_DIR_INUMBER, ROOT_DIR_INUMBER).
DirFormat ==
  dir_create([list |-> <<>>, it |-> [i \in DirInums |-> ZeroInode],
              sec |-> [s \in Sectors |-> [k \in 0 .. BLOCK_SECTOR_SIZE - 1 |->
                                            IF s < Reserved THEN 0 ELSE Garbage]],
              fm |-> free_map_create, isdir |-> [i \in DirInums |-> FALSE],
              cwd |-> NoDir, panic |-> FALSE],
             ROOT_DIR_INUMBER, ROOT_DIR_INUMBER).w

DirInit ==
  /\ itable = DirFormat.it
  /\ sec = DirFormat.sec
  /\ free_map = DirFormat.fm
  /\ open_inodes = DirFormat.list
  /\ is_dir = DirFormat.isdir
  /\ cwd = NoDir
  /\ held = [i \in DirInums |-> 0]
  /\ ncalls = 0
  /\ crc = NoCrc
  /\ panic = FALSE
  /\ linked = {}
  /\ nwrites = 0
  /\ wr = NoOp
  /\ last = NoOp
  /\ CacheIdle
  /\ OpenIdle

\* No open count is at the bound.
DirRoom ==
  /\ ncalls < DirMaxCalls
  /\ \A k \in 1 .. Len(open_inodes) : open_inodes[k].open_cnt < DirMaxOpen

\* The world a call leaves behind becomes the state.
DirSet(w) ==
  /\ open_inodes' = w.list
  /\ itable' = w.it
  /\ sec' = w.sec
  /\ free_map' = w.fm
  /\ is_dir' = w.isdir
  /\ cwd' = w.cwd
  /\ panic' = w.panic
  /\ ncalls' = ncalls + 1

DirCreate(name, initial_size) ==
  /\ ~panic
  /\ DirRoom
  /\ \E r \in {filesys_create(World, name, initial_size)} :
       /\ DirSet(r.w)
       /\ last' = [op |-> "create", name |-> name, ret |-> r.ok, inumber |-> r.inumber,
                   dir |-> r.dir, size |-> initial_size, added |-> r.added,
                   removed |-> r.removed, same |-> r.same]
  /\ UNCHANGED <<held, linked, nwrites, wr>>
  /\ crc' = CrcStep(last')
  /\ UNCHANGED <<cacheVars, openVars>>

DirMkdir(name) ==
  /\ ~panic
  /\ DirRoom
  /\ \E r \in {filesys_mkdir(World, name)} :
       /\ DirSet(r.w)
       /\ last' = [op |-> "mkdir", name |-> name, ret |-> r.ok, inumber |-> r.inumber,
                   dir |-> r.dir]
  /\ UNCHANGED <<held, linked, nwrites, wr>>
  /\ crc' = CrcStep(last')
  /\ UNCHANGED <<cacheVars, openVars>>

\* filesys_open; the caller keeps the inode open until DirClose.
DirOpen(name) ==
  /\ ~panic
  /\ DirRoom
  /\ \E r \in {filesys_open(World, name)} :
       /\ DirSet(r.w)
       /\ held' = IF r.ok THEN [held EXCEPT ![r.inode] = @ + 1] ELSE held
       /\ last' = [op |-> "open", name |-> name, ret |-> r.ok, inumber |-> r.inode,
                   dir |-> r.dir, removed |-> r.removed, same |-> r.same]
  /\ UNCHANGED <<linked, nwrites, wr>>
  /\ crc' = CrcStep(last')
  /\ UNCHANGED <<cacheVars, openVars>>

\* file_close: inode_close of an inode the caller holds open.
DirClose(i) ==
  /\ ~panic
  /\ ncalls < DirMaxCalls
  /\ held[i] > 0
  /\ DirSet(dir_close(World, i))
  /\ held' = [held EXCEPT ![i] = @ - 1]
  /\ last' = [op |-> "close", name |-> <<>>, ret |-> TRUE, inumber |-> i, dir |-> NoDir]
  /\ UNCHANGED <<linked, nwrites, wr>>
  /\ crc' = CrcStep(last')
  /\ UNCHANGED <<cacheVars, openVars>>

DirRemove(name) ==
  /\ ~panic
  /\ DirRoom
  /\ \E r \in {filesys_remove(World, name)} :
       /\ DirSet(r.w)
       /\ last' = [op |-> "remove", name |-> name, ret |-> r.ok, inumber |-> NoDir,
                   dir |-> r.dir, same |-> r.same]
  /\ UNCHANGED <<held, linked, nwrites, wr>>
  /\ crc' = CrcStep(last')
  /\ UNCHANGED <<cacheVars, openVars>>

DirChdir(name) ==
  /\ ~panic
  /\ DirRoom
  /\ \E r \in {filesys_chdir(World, name)} :
       /\ DirSet(r.w)
       /\ last' = [op |-> "chdir", name |-> name, ret |-> r.ok, inumber |-> NoDir,
                   dir |-> r.w.cwd]
  /\ UNCHANGED <<held, linked, nwrites, wr>>
  /\ crc' = CrcStep(last')
  /\ UNCHANGED <<cacheVars, openVars>>

\* file_write of one word at offset 0 through an inode the caller holds open.
DirWrite(i) ==
  /\ ~panic
  /\ ncalls < DirMaxCalls
  /\ held[i] > 0
  /\ nwrites < DirMaxWrites
  /\ \E k \in {HandleIdx(open_inodes, i)} :
     \E r \in {inode_write_at(WCtx(World, k), open_inodes[k].deny_write_cnt,
                              WriteBuf(nwrites + 1, 1), 1, 0)} :
       /\ DirSet(WPut(World, k, r.c))
       /\ last' = [op |-> "write", name |-> <<>>, ret |-> r.ret = 1, inumber |-> i,
                   dir |-> NoDir]
  /\ nwrites' = nwrites + 1
  /\ UNCHANGED <<held, linked, wr>>
  /\ crc' = CrcStep(last')
  /\ UNCHANGED <<cacheVars, openVars>>

DirNext ==
  \/ \E name \in CreatePaths, initial_size \in CreateSizes : DirCreate(name, initial_size)
  \/ \E name \in MkdirPaths : DirMkdir(name)
  \/ \E name \in OpenPaths : DirOpen(name)
  \/ \E i \in DirInums : DirClose(i)
  \/ \E name \in RemovePaths : DirRemove(name)
  \/ \E name \in ChdirPaths : DirChdir(name)
  \/ \E i \in DirInums : DirWrite(i)

SpecDir == DirInit /\ [][DirNext]_vars

(***************************************************************************)
(* Properties of the directory layer (specification SpecDir)               *)
(***************************************************************************)
\* The word at offset ofs of the on-disk inode d (directories stay within the
\* direct blocks), and the in-use entries the directory d holds on disk.
DiskWord(d, ofs) ==
  LET s == itable[d].arr[ofs \div BLOCK_SECTOR_SIZE]
  IN IF s \in Sectors /\ s # 0 THEN sec[s][ofs % BLOCK_SECTOR_SIZE] ELSE 0

DirEntries(d) ==
  {e \in {WordEntry(DiskWord(d, ofs)) :
            ofs \in 0 .. Min(itable[d].length, DIRECT_LIMIT * BLOCK_SECTOR_SIZE) - 1} : e.in_use}

\* The directories of the file system: the in-use inodes with is_dir.
Directories == {d \in DirInums : itable[d].in_use /\ is_dir[d]}

\* Some open struct inode or some in-use directory entry refers to inumber i.
Referred(i) ==
  \/ \E k \in 1 .. Len(open_inodes) : open_inodes[k].inumber = i
  \/ \E d \in Directories : \E e \in DirEntries(d) : e.inumber = i

\* C11: an inode-table entry is in use exactly when an open handle or an
\* in-use directory entry refers to its inumber; no in-use entry names an
\* inumber that was released; a filesys_create that failed leaves no in-use
\* table entry behind.
C11_InUseIffReferenced ==
  ~panic =>
    /\ \A i \in DirInums : itable[i].in_use <=> Referred(i)
    /\ \A d \in Directories : \A e \in DirEntries(d) :
         e.inumber \in DirInums /\ itable[e.inumber].in_use
    /\ (last.op = "create" /\ ~last.ret /\ last.inumber # 0) => ~itable[last.inumber].in_use

\* C12: filesys_create, filesys_remove, filesys_create of the same path each
\* return true, and the inode of the second create is fresh: its length is
\* the requested one and its eight block pointers are zero, whether or not
\* the first file was still open when it was removed.
C12_CreateRemoveCreate ==
  [][(~panic' /\ last'.name = CrcPath)
       => /\ (crc.stage = 1 /\ last'.op = "remove") => last'.ret
          /\ (crc.stage = 2 /\ last'.op = "create")
               => /\ last'.ret
                  /\ itable'[last'.inumber] =
                       [in_use |-> TRUE, length |-> last'.size, arr |-> ZeroArr]]_vars

\* The final component dir_fetch hands back for a path it resolves.
FinalName(name) == IF name = <<"/">> THEN current_str ELSE dir_file(name).file

\* The in-use entries of the directory dir with the given name.
Named(dir, file) == {e \in DirEntries(dir) : e.name = file}

\* The directories with an in-use entry other than "." and "..".
NonEmpty(d) ==
  /\ d \in Directories
  /\ \E e \in DirEntries(d) : e.name # current_str /\ e.name # parent_str

\* The call made last (primed: the call this step makes) was a filesys_remove
\* whose path resolved to a directory dir and whose final component names a
\* non-empty directory in it.
RemoveOfNonEmpty(l) ==
  /\ l.op = "remove"
  /\ l.dir # NoDir
  /\ \E e \in Named(l.dir, FinalName(l.name)) : NonEmpty(e.inumber)

\* C14: dir_remove of a non-empty sub-directory returns false and changes
\* nothing: the parent's entry stays, the directory is not marked removed,
\* the open counts are as before and the files inside can still be opened
\* (the open inodes, the inode table, the sectors and the free map are as
\* dir_remove found them).
C14_RemoveNonEmptyFails ==
  [][(~panic /\ RemoveOfNonEmpty(last')) => (~last'.ret /\ last'.same)]_vars

\* A filesys_remove of a directory that holds a file has returned; the file
\* is still named by an in-use entry of an in-use inode.
C14_Witness ==
  /\ ~panic
  /\ RemoveOfNonEmpty(last)
  /\ last.name = <<"/", "a">>
  /\ \E e \in Named(last.dir, <<"a">>) :
     \E f \in Named(e.inumber, <<"b">>) : itable[f.inumber].in_use /\ ~is_dir[f.inumber]

\* C15: once the inode of a directory has removed set, dir_lookup and
\* dir_add on it return false and modify nothing: the directory's contents
\* and length and the open counts are as the call found them.
C15_RemovedDirRefuses ==
  (~panic /\ last.op \in {"open", "create"} /\ last.dir # NoDir /\ last.removed)
    => (~last.ret /\ last.same)

\* dir_add has returned from a directory that was removed while it was the
\* caller's cwd, with an inumber assigned for the new file.
C15_Witness ==
  /\ ~panic
  /\ last.op = "create" /\ last.added /\ last.removed
  /\ last.dir = cwd /\ cwd # ROOT_DIR_INUMBER
  /\ last.name = <<"b">>

\* The components of an absolute path that dir_fetch looks up: the tokens
\* before the final component.
DirPart(name) == strtok_r(SubSeq(name, 1, dir_file(name).ofs))

\* The path is absolute and its first non-final component names, in the root
\* directory, an in-use inode that is not a directory.
ThroughFile(name) ==
  /\ name # <<"/">>
  /\ Head(name) = "/"
  /\ ROOT_DIR_INUMBER \in Directories
  /\ DirPart(name) # <<>>
  /\ \E e \in Named(ROOT_DIR_INUMBER, Head(DirPart(name))) :
       itable[e.inumber].in_use /\ ~is_dir[e.inumber]

\* C18: dir_fetch descends only into directories: filesys_open,
\* filesys_create and filesys_remove of a path with a non-final component
\* that names an existing inode that is not a directory fail, and neither
\* the inode table, the sectors nor the free map change.
C18_DescendsOnlyIntoDirs ==
  [][(~panic /\ last'.op \in {"create", "open", "remove"} /\ ThroughFile(last'.name))
       => (~last'.ret /\ itable' = itable /\ sec' = sec /\ free_map' = free_map)]_vars

\* The directories an absolute path of one component names: the inumbers of
\* the in-use entries of that name in the root whose inode is a directory.
PathDirs(p) ==
  IF Head(p) = "/" /\ Len(strtok_r(p)) = 1 /\ ROOT_DIR_INUMBER \in Directories
  THEN {e.inumber : e \in {x \in Named(ROOT_DIR_INUMBER, Head(strtok_r(p))) :
                             x.inumber \in Directories}}
  ELSE {}

\* The path with a "/" appended.
TrailingSlash(p) == p \o <<"/">>

\* C19: for an existing directory path p, dir_fetch (p + "/") succeeds and
\* returns the directory p with the final component "."; the path "/"
\* yields the root with ".".
C19_TrailingSlash ==
  [][(~panic /\ last'.op = "open")
       => /\ last'.name = <<"/">>
               => /\ dir_fetch(World, last'.name, TRUE).dir = ROOT_DIR_INUMBER
                  /\ dir_fetch(World, last'.name, TRUE).file = current_str
          /\ \A p \in {<<"/", "a">>} : \A d \in PathDirs(p) :
               last'.name = TrailingSlash(p)
                 => /\ dir_fetch(World, last'.name, TRUE).dir = d
                    /\ dir_fetch(World, last'.name, TRUE).file = current_str]_vars

\* The final component of the path is "." or "..": the path is "/", or ends
\* in "/" (dir_fetch then takes "."), or its last name is "." or "..".
FinalDot(p) ==
  \/ p[Len(p)] = "/"
  \/ strtok_r(p) # <<>> /\ strtok_r(p)[Len(strtok_r(p))] \in {current_str, parent_str}

\* C25: filesys_remove of a path whose final component is "." or ".."
\* returns false; the root directory is never marked removed; and no
\* directory is marked removed while its parent holds an in-use entry for it.
C25_RemoveOnlyByName ==
  /\ [][(~panic /\ last'.op = "remove" /\ FinalDot(last'.name)) => ~last'.ret]_vars
  /\ [](~panic =>
          \A k \in 1 .. Len(open_inodes) :
            open_inodes[k].removed =>
              /\ open_inodes[k].inumber # ROOT_DIR_INUMBER
              /\ \A d \in Directories : \A e \in DirEntries(d) :
                   (e.inumber = open_inodes[k].inumber /\ is_dir[e.inumber])
                     => e.name \in {current_str, parent_str})

\* The open_cnt of the struct inode of inumber i in the list, 0 if it has none.
OpenCount(list, i) ==
  IF HandleIdx(list, i) = 0 THEN 0 ELSE list[HandleIdx(list, i)].open_cnt

\* The call of this step returned because its dir_fetch returned NULL.
FetchFailed ==
  \/ last'.op \in {"create", "mkdir", "open", "remove"} /\ last'.dir = NoDir
  \/ last'.op = "chdir" /\ ~last'.ret

\* C38: dir_fetch is reference-balanced on failure: a call whose dir_fetch
\* returns NULL leaves the open_cnt of every inode as it was.
C38_FetchBalanced ==
  [][(~panic /\ FetchFailed) =>
       \A i \in DirInums : OpenCount(open_inodes', i) = OpenCount(open_inodes, i)]_vars

(***************************************************************************)
(* Specification SpecLen: threads in inode_write_at on one struct inode.   *)
(* A thread is at "idle" between calls, at "chunk" before byte_to_sector   *)
(* and cache_sector_write of a chunk, at "check" before the comparison     *)
(* with inode->data.length and at "set" before the assignment to it.       *)
(***************************************************************************)
NumWriters == 2
LenOps == 1                  \* calls of inode_write_at per thread
LenFile == 1                 \* the inumber of the file

Writers == 1 .. NumWriters
LenOffsets == {0, BLOCK_SECTOR_SIZE}
LenSizes == {1, BLOCK_SECTOR_SIZE + 1}
LenInitial == {0, BLOCK_SECTOR_SIZE + 1}
LenIdle == [offset |-> 0, size |-> 0, bytes_written |-> 0, chunk_size |-> 0, ncalls |-> 0]

\* The struct inode of the file, and its length.
LenHandle == open_inodes[HandleIdx(open_inodes, LenFile)]
LenLength == LenHandle.data.length

\* A formatted file system with the file created and opened once per thread.
LenInit ==
  /\ \E l0 \in LenInitial :
       /\ itable = inode_create(FormattedTable, LenFile, l0)
       /\ open_inodes = inode_reopen(inode_open(<<>>, inode_create(FormattedTable, LenFile, l0),
                                                LenFile), 1)
       /\ last = [op |-> "len", initial |-> l0, hi |-> 0]
  /\ sec = FormattedSectors
  /\ free_map = FormattedMap
  /\ linked = {LenFile}
  /\ panic = FALSE
  /\ nwrites = 0
  /\ wr = NoOp
  /\ CacheIdle
  /\ DirIdle
  /\ opc = [t \in Writers |-> "idle"]
  /\ oloc = [t \in Writers |-> LenIdle]

LenRest == <<linked, nwrites, wr>>

\* inode_write_at (inode, buffer, size, offset) up to the loop: a thread whose
\* call finds deny_write_cnt set returns 0 at once.
LenBegin(t, offset, size) ==
  /\ ~panic
  /\ opc[t] = "idle"
  /\ oloc[t].ncalls < LenOps
  /\ oloc' = [oloc EXCEPT ![t] = [offset |-> offset, size |-> size, bytes_written |-> 0,
                                  chunk_size |-> 0, ncalls |-> @.ncalls + 1]]
  /\ opc' = [opc EXCEPT ![t] = IF LenHandle.deny_write_cnt > 0 THEN "idle" ELSE "chunk"]
  /\ UNCHANGED <<itable, sec, free_map, open_inodes, panic, last, LenRest>>
  /\ UNCHANGED <<cacheVars, dirVars>>

\* byte_to_sector and cache_sector_write of the next chunk.
LenChunk(t) ==
  /\ ~panic
  /\ opc[t] = "chunk"
  /\ \E k \in {HandleIdx(open_inodes, LenFile)} :
     \E l \in {oloc[t]} :
     \E sector_ofs \in {l.offset % BLOCK_SECTOR_SIZE} :
     \E chunk_size \in {Min(l.size, BLOCK_SECTOR_SIZE - sector_ofs)} :
     \E b \in {byte_to_sector(Ctx(LenFile, open_inodes[k].data), l.offset)} :
     \E c \in {cache_sector_write(b.c, b.sector, WriteBuf(t, l.bytes_written + l.size),
                                  l.bytes_written, chunk_size, sector_ofs)} :
       /\ open_inodes' = [open_inodes EXCEPT ![k].data = c.data]
       /\ itable' = c.it
       /\ sec' = c.sec
       /\ free_map' = c.fm
       /\ panic' = c.panic
       /\ oloc' = [oloc EXCEPT ![t].chunk_size = chunk_size]
  /\ opc' = [opc EXCEPT ![t] = "check"]
  /\ UNCHANGED <<last, LenRest>>
  /\ UNCHANGED <<cacheVars, dirVars>>

\* The end of the loop body: size, offset and bytes_written advance; the call
\* returns bytes_written when size has reached 0.
LenAdvance(t) ==
  /\ oloc' = [oloc EXCEPT ![t].size = @ - oloc[t].chunk_size,
                          ![t].offset = @ + oloc[t].chunk_size,
                          ![t].bytes_written = @ + oloc[t].chunk_size]
  /\ opc' = [opc EXCEPT ![t] = IF oloc[t].size - oloc[t].chunk_size > 0 THEN "chunk" ELSE "idle"]
  /\ last' = IF oloc[t].size - oloc[t].chunk_size > 0 THEN last
             ELSE [last EXCEPT !.hi = Max(@, oloc[t].offset + oloc[t].chunk_size)]

\* if (offset + chunk_size > inode->data.length)
LenCheck(t) ==
  /\ ~panic
  /\ opc[t] = "check"
  /\ IF oloc[t].offset + oloc[t].chunk_size > LenLength
     THEN /\ opc' = [opc EXCEPT ![t] = "set"]
          /\ UNCHANGED <<oloc, last>>
     ELSE LenAdvance(t)
  /\ UNCHANGED <<itable, sec, free_map, open_inodes, panic, LenRest>>
  /\ UNCHANGED <<cacheVars, dirVars>>

\* inode->data.length = offset + chunk_size; inode_write_to_table (...)
LenSet(t) ==
  /\ ~panic
  /\ opc[t] = "set"
  /\ \E k \in {HandleIdx(open_inodes, LenFile)} :
     \E d \in {[open_inodes[k].data EXCEPT !.length = oloc[t].offset + oloc[t].chunk_size]} :
       /\ open_inodes' = [open_inodes EXCEPT ![k].data = d]
       /\ itable' = [itable EXCEPT ![LenFile] = d]
  /\ LenAdvance(t)
  /\ UNCHANGED <<sec, free_map, panic, LenRest>>
  /\ UNCHANGED <<cacheVars, dirVars>>

LenNext ==
  \/ \E t \in Writers, offset \in LenOffsets, size \in LenSizes : LenBegin(t, offset, size)
  \/ \E t \in Writers : LenChunk(t)
  \/ \E t \in Writers : LenCheck(t)
  \/ \E t \in Writers : LenSet(t)

SpecLen == LenInit /\ [][LenNext]_vars

\* C13: the length of an inode never decreases; when no inode_write_at is in
\* progress it is the maximum of the initial length and of offset plus bytes
\* written over the completed writes, and the length in the inode table is the
\* in-memory length.
C13_LengthMonotonic ==
  /\ [][~panic' => LenLength' >= LenLength]_vars
  /\ []((~panic /\ \A t \in Writers : opc[t] = "idle")
          => /\ LenLength = Max(last.initial, last.hi)
             /\ itable[LenFile].length = LenLength)

(***************************************************************************)
(* Specification SpecRace: threads in filesys_create and filesys_remove of *)
(* one name in the root directory.  A struct inode carries its address     *)
(* (id) and the holder of its directory lock (dir_lock).  A thread is at   *)
(* "scan" and "malloc" inside the inode_open of dir_open_root, at "assign" *)
(* before inode_assign_inumber, at "add_lock", "add_scan" and "add_write"  *)
(* inside dir_add, at "rm_lookup" and "rm_erase" inside dir_remove, at     *)
(* "finish" before dir_close and at "done" after the return.               *)
(***************************************************************************)
NumRacers == 2

Racers == 1 .. NumRacers
RaceName == <<"a">>
RaceIdle == [op |-> "none", dir |-> NoInode, inumber |-> 0, ofs |-> 0, e |-> WordEntry(0),
             ret |-> FALSE, marked |-> FALSE]

\* The file system after do_format, and with the file RaceName in the root.
RaceWorlds == {DirFormat, filesys_create(DirFormat, <<"/">> \o RaceName, 0).w}

RaceInit ==
  /\ \E w \in RaceWorlds :
       /\ itable = w.it
       /\ sec = w.sec
       /\ free_map = w.fm
       /\ is_dir = w.isdir
       /\ last = [op |-> "race", exists |-> \E i \in DirInums : i # ROOT_DIR_INUMBER /\ w.it[i].in_use]
  /\ open_inodes = <<>>
  /\ cwd = NoDir
  /\ held = <<>>
  /\ ncalls = 0
  /\ crc = <<>>
  /\ linked = {}
  /\ panic = FALSE
  /\ nwrites = 0
  /\ wr = NoOp
  /\ CacheIdle
  /\ opc = [t \in Racers |-> "idle"]
  /\ oloc = [t \in Racers |-> RaceIdle]

RaceRest == <<linked, nwrites, wr, last, is_dir, cwd, held, ncalls, crc>>

\* inode_lock_dir (inode) returns at once for thread t.
inode_lock_dir_free(h, t) == h.dir_lock \in {NoThread, t}

\* The state a thread works on through the struct inode at position k.
RaceWorld(k) ==
  [list |-> <<open_inodes[k]>>, it |-> itable, sec |-> sec, fm |-> free_map, isdir |-> is_dir,
   cwd |-> NoDir, panic |-> panic]

RaceSet(k, w, h) ==
  /\ open_inodes' = [open_inodes EXCEPT ![k] = h]
  /\ itable' = w.it
  /\ sec' = w.sec
  /\ free_map' = w.fm
  /\ panic' = w.panic

\* A thread enters filesys_create or filesys_remove of "/" RaceName: dir_fetch
\* calls dir_open_root.
RaceBegin(t, op) ==
  /\ opc[t] = "idle"
  /\ oloc' = [oloc EXCEPT ![t].op = op]
  /\ opc' = [opc EXCEPT ![t] = "scan"]
  /\ UNCHANGED <<itable, sec, free_map, open_inodes, panic, RaceRest>>
  /\ UNCHANGED cacheVars

\* inode_open (ROOT_DIR_INUMBER): the loop over open_inodes, and inode_reopen
\* when it finds the inumber.
RaceScan(t) ==
  /\ opc[t] = "scan"
  /\ \E k \in {HandleIdx(open_inodes, ROOT_DIR_INUMBER)} :
       IF k # 0
       THEN /\ open_inodes' = inode_reopen(open_inodes, k)
            /\ oloc' = [oloc EXCEPT ![t].dir = open_inodes[k].id]
            /\ opc' = [opc EXCEPT ![t] = IF oloc[t].op = "create" THEN "assign" ELSE "rm_lookup"]
       ELSE /\ opc' = [opc EXCEPT ![t] = "malloc"]
            /\ UNCHANGED <<open_inodes, oloc>>
  /\ UNCHANGED <<itable, sec, free_map, panic, RaceRest>>
  /\ UNCHANGED cacheVars

\* inode_open: malloc, list_push_front, the initialisation (lock included) and
\* the read of the table entry.
RaceNew(t) ==
  /\ opc[t] = "malloc"
  /\ open_inodes' =
       <<[id |-> t, inumber |-> ROOT_DIR_INUMBER, open_cnt |-> 1, deny_write_cnt |-> 0,
          removed |-> FALSE, data |-> itable[ROOT_DIR_INUMBER], dir_lock |-> NoThread]>>
       \o open_inodes
  /\ oloc' = [oloc EXCEPT ![t].dir = t]
  /\ opc' = [opc EXCEPT ![t] = IF oloc[t].op = "create" THEN "assign" ELSE "rm_lookup"]
  /\ UNCHANGED <<itable, sec, free_map, panic, RaceRest>>
  /\ UNCHANGED cacheVars

\* filesys_create: inode_assign_inumber and inode_create.
RaceAssign(t) ==
  /\ opc[t] = "assign"
  /\ \E a \in {inode_assign_inumber(itable)} :
       /\ itable' = IF a.ok THEN inode_create(a.it, a.inumber, 0) ELSE a.it
       /\ oloc' = [oloc EXCEPT ![t].inumber = a.inumber]
       /\ opc' = [opc EXCEPT ![t] = IF a.ok THEN "add_lock" ELSE "finish"]
  /\ UNCHANGED <<sec, free_map, open_inodes, panic, RaceRest>>
  /\ UNCHANGED cacheVars

\* dir_add: inode_lock_dir, dir_is_removed and lookup; when the name is in
\* use the function returns through done, past inode_set_lock_dir.
RaceAddLock(t) ==
  /\ opc[t] = "add_lock"
  /\ \E k \in {PtrIdx(open_inodes, oloc[t].dir)} :
       /\ inode_lock_dir_free(open_inodes[k], t)
       /\ \E l \in {lookup(RaceWorld(k), ROOT_DIR_INUMBER, RaceName)} :
            /\ RaceSet(k, l.w, [l.w.list[1] EXCEPT !.dir_lock =
                                  IF open_inodes[k].removed THEN NoThread ELSE t])
            /\ opc' = [opc EXCEPT ![t] = IF open_inodes[k].removed \/ l.ok THEN "finish"
                                         ELSE "add_scan"]
  /\ UNCHANGED <<oloc, RaceRest>>
  /\ UNCHANGED cacheVars

\* dir_add: the loop that sets ofs to the offset of a free slot.
RaceAddScan(t) ==
  /\ opc[t] = "add_scan"
  /\ \E k \in {PtrIdx(open_inodes, oloc[t].dir)} :
     \E s \in {free_slot(RaceWorld(k), ROOT_DIR_INUMBER, 0)} :
       /\ RaceSet(k, s.w, s.w.list[1])
       /\ oloc' = [oloc EXCEPT ![t].ofs = s.ofs]
  /\ opc' = [opc EXCEPT ![t] = "add_write"]
  /\ UNCHANGED RaceRest
  /\ UNCHANGED cacheVars

\* dir_add: inode_write_at of the entry, inode_read_at, inode_set_lock_dir.
RaceAddWrite(t) ==
  /\ opc[t] = "add_write"
  /\ \E k \in {PtrIdx(open_inodes, oloc[t].dir)} :
     \E r \in {write_entry(RaceWorld(k), ROOT_DIR_INUMBER,
                           [in_use |-> TRUE, name |-> RaceName, inumber |-> oloc[t].inumber],
                           oloc[t].ofs)} :
     \E w \in {read_entry(r.w, ROOT_DIR_INUMBER, oloc[t].ofs).w} :
       /\ RaceSet(k, w, [w.list[1] EXCEPT !.dir_lock = NoThread])
       /\ oloc' = [oloc EXCEPT ![t].ret = r.ok]
  /\ opc' = [opc EXCEPT ![t] = "finish"]
  /\ UNCHANGED RaceRest
  /\ UNCHANGED cacheVars

\* dir_remove: lookup (dir, name, &e, &ofs), which holds the directory lock
\* while it scans.
RaceRmLookup(t) ==
  /\ opc[t] = "rm_lookup"
  /\ \E k \in {PtrIdx(open_inodes, oloc[t].dir)} :
       /\ inode_lock_dir_free(open_inodes[k], t)
       /\ \E l \in {lookup(RaceWorld(k), ROOT_DIR_INUMBER, RaceName)} :
            /\ RaceSet(k, l.w, l.w.list[1])
            /\ oloc' = [oloc EXCEPT ![t].e = l.e, ![t].ofs = l.ofs]
            /\ opc' = [opc EXCEPT ![t] = IF l.ok THEN "rm_erase" ELSE "finish"]
  /\ UNCHANGED RaceRest
  /\ UNCHANGED cacheVars

\* dir_remove: inode_open (e.inumber), the entry is erased, inode_remove and
\* inode_close of the file's inode, which no other caller holds open.
RaceRmErase(t) ==
  /\ opc[t] = "rm_erase"
  /\ \E k \in {PtrIdx(open_inodes, oloc[t].dir)} :
     \E r \in {write_entry(RaceWorld(k), ROOT_DIR_INUMBER,
                           [oloc[t].e EXCEPT !.in_use = FALSE], oloc[t].ofs)} :
     \E f \in {inode_remove(inode_open(<<>>, r.w.it, oloc[t].e.inumber), 1)} :
     \E c \in {inode_close(f, 1, [ino |-> oloc[t].e.inumber, data |-> f[1].data, fm |-> r.w.fm,
                                  sec |-> r.w.sec, it |-> r.w.it, panic |-> r.w.panic])} :
       /\ open_inodes' = [open_inodes EXCEPT ![k] = r.w.list[1]]
       /\ itable' = IF r.ok THEN c.c.it ELSE r.w.it
       /\ sec' = IF r.ok THEN c.c.sec ELSE r.w.sec
       /\ free_map' = IF r.ok THEN c.c.fm ELSE r.w.fm
       /\ panic' = IF r.ok THEN c.c.panic ELSE r.w.panic
       /\ oloc' = [oloc EXCEPT ![t].ret = r.ok, ![t].marked = r.ok]
  /\ opc' = [opc EXCEPT ![t] = "finish"]
  /\ UNCHANGED RaceRest
  /\ UNCHANGED cacheVars

\* filesys_create releases the inumber of a failed create; both functions end
\* with dir_close (dir).
RaceFinish(t) ==
  /\ opc[t] = "finish"
  /\ \E k \in {PtrIdx(open_inodes, oloc[t].dir)} :
     \E h \in {open_inodes[k]} :
     \E it1 \in {IF oloc[t].op = "create" /\ ~oloc[t].ret /\ oloc[t].inumber # 0
                 THEN inode_release_inumber(itable, oloc[t].inumber) ELSE itable} :
     \E r \in {inode_close(open_inodes, k,
                           [ino |-> h.inumber, data |-> h.data, fm |-> free_map, sec |-> sec,
                            it |-> it1, panic |-> panic])} :
       /\ open_inodes' = r.list
       /\ itable' = r.c.it
       /\ sec' = r.c.sec
       /\ free_map' = r.c.fm
       /\ panic' = r.c.panic
  /\ opc' = [opc EXCEPT ![t] = "done"]
  /\ UNCHANGED <<oloc, RaceRest>>
  /\ UNCHANGED cacheVars

RaceNext ==
  \/ \E t \in Racers, op \in {"create", "remove"} : RaceBegin(t, op)
  \/ \E t \in Racers : RaceScan(t)
  \/ \E t \in Racers : RaceNew(t)
  \/ \E t \in Racers : RaceAssign(t)
  \/ \E t \in Racers : RaceAddLock(t)
  \/ \E t \in Racers : RaceAddScan(t)
  \/ \E t \in Racers : RaceAddWrite(t)
  \/ \E t \in Racers : RaceRmLookup(t)
  \/ \E t \in Racers : RaceRmErase(t)
  \/ \E t \in Racers : RaceFinish(t)

SpecRace == RaceInit /\ [][RaceNext]_vars

\* C16: of two simultaneous filesys_create of one name in one directory
\* exactly one returns true, and the directory never holds two in-use
\* entries with the same name.
C16_OneCreateWins ==
  ~panic =>
    /\ \A e1, e2 \in DirEntries(ROOT_DIR_INUMBER) : e1.name = e2.name => e1 = e2
    /\ (~last.exists /\ \A t \in Racers : opc[t] = "done" /\ oloc[t].op = "create")
         => Cardinality({t \in Racers : oloc[t].ret}) = 1

\* C17: of two simultaneous filesys_remove of one file exactly one returns
\* true, and the inode is marked removed by exactly one of them.
C17_OneRemoveWins ==
  (~panic /\ last.exists /\ \A t \in Racers : opc[t] = "done" /\ oloc[t].op = "remove")
    => /\ Cardinality({t \in Racers : oloc[t].ret}) = 1
       /\ Cardinality({t \in Racers : oloc[t].marked}) = 1

\* C24: a directory operation leaves the directory lock as it found it on
\* every return path: a thread that is past dir_add or dir_remove (it took
\* the lock inside, never before) holds the lock of no struct inode, so
\* another thread can acquire it.
C24_LockRestored ==
  \A t \in Racers :
    opc[t] \in {"finish", "done"} =>
      \A k \in 1 .. Len(open_inodes) : open_inodes[k].dir_lock # t

(***************************************************************************)
(* Specification SpecDeny: the openers of one file.  Each opener is a      *)
(* struct file with its deny_write flag; it opens the inode, denies and    *)
(* allows writes as the contract of inode_deny_write and inode_allow_write *)
(* asks of an opener, writes, and closes.                                  *)
(***************************************************************************)
NumFiles == 3
DenyMaxWrites == 3

Files == 1 .. NumFiles
DenyInumber == 1
DenyOffsets == {0, BLOCK_SECTOR_SIZE}
NoFile == [open |-> FALSE, deny_write |-> FALSE]

\* inode_deny_write (inode); panic when the ASSERT fails.
inode_deny_write(list, k) ==
  [list |-> [list EXCEPT ![k].deny_write_cnt = @ + 1],
   panic |-> ~(list[k].deny_write_cnt + 1 <= list[k].open_cnt)]

\* inode_allow_write (inode); panic when an ASSERT fails.
inode_allow_write(list, k) ==
  IF ~(list[k].deny_write_cnt > 0) \/ ~(list[k].deny_write_cnt <= list[k].open_cnt)
  THEN [list |-> list, panic |-> TRUE]
  ELSE [list |-> [list EXCEPT ![k].deny_write_cnt = @ - 1], panic |-> FALSE]

\* file_deny_write (file): at most one inode_deny_write per opener.
file_deny_write(file, list, k) ==
  IF file.deny_write THEN [file |-> file, list |-> list, panic |-> FALSE]
  ELSE [file |-> [file EXCEPT !.deny_write = TRUE], list |-> inode_deny_write(list, k).list,
        panic |-> inode_deny_write(list, k).panic]

\* file_allow_write (file): undoes the opener's own inode_deny_write.
file_allow_write(file, list, k) ==
  IF ~file.deny_write THEN [file |-> file, list |-> list, panic |-> FALSE]
  ELSE [file |-> [file EXCEPT !.deny_write = FALSE], list |-> inode_allow_write(list, k).list,
        panic |-> inode_allow_write(list, k).panic]

\* The file system after do_format and the creation of one empty file.
DenyInit ==
  /\ itable = inode_create(inode_assign_inumber(FormattedTable).it, DenyInumber, 0)
  /\ sec = FormattedSectors
  /\ free_map = FormattedMap
  /\ open_inodes = <<>>
  /\ linked = {DenyInumber}
  /\ panic = FALSE
  /\ nwrites = 0
  /\ wr = NoOp
  /\ last = NoOp
  /\ CacheIdle
  /\ DirIdle
  /\ opc = <<>>
  /\ oloc = [f \in Files |-> NoFile]

DenyRest == <<linked, wr, opc>>

\* file_open (inode_open (DenyInumber)) by the opener f.
FileOpen(f) ==
  /\ ~panic
  /\ ~oloc[f].open
  /\ open_inodes' = inode_open(open_inodes, itable, DenyInumber)
  /\ oloc' = [oloc EXCEPT ![f] = [open |-> TRUE, deny_write |-> FALSE]]
  /\ last' = [op |-> "open", file |-> f]
  /\ UNCHANGED <<itable, sec, free_map, panic, nwrites, DenyRest>>
  /\ UNCHANGED <<cacheVars, dirVars>>

FileDenyWrite(f) ==
  /\ ~panic
  /\ oloc[f].open
  /\ \E r \in {file_deny_write(oloc[f], open_inodes, HandleIdx(open_inodes, DenyInumber))} :
       /\ open_inodes' = r.list
       /\ oloc' = [oloc EXCEPT ![f] = r.file]
       /\ panic' = r.panic
  /\ last' = [op |-> "deny", file |-> f]
  /\ UNCHANGED <<itable, sec, free_map, nwrites, DenyRest>>
  /\ UNCHANGED <<cacheVars, dirVars>>

FileAllowWrite(f) ==
  /\ ~panic
  /\ oloc[f].open
  /\ \E r \in {file_allow_write(oloc[f], open_inodes, HandleIdx(open_inodes, DenyInumber))} :
       /\ open_inodes' = r.list
       /\ oloc' = [oloc EXCEPT ![f] = r.file]
       /\ panic' = r.panic
  /\ last' = [op |-> "allow", file |-> f]
  /\ UNCHANGED <<itable, sec, free_map, nwrites, DenyRest>>
  /\ UNCHANGED <<cacheVars, dirVars>>

\* file_close (file): file_allow_write, then inode_close.
FileClose(f) ==
  /\ ~panic
  /\ oloc[f].open
  /\ \E k \in {HandleIdx(open_inodes, DenyInumber)} :
     \E a \in {file_allow_write(oloc[f], open_inodes, k)} :
     \E r \in {inode_close(a.list, k, Ctx(DenyInumber, a.list[k].data))} :
       /\ open_inodes' = r.list
       /\ itable' = r.c.it
       /\ sec' = r.c.sec
       /\ free_map' = r.c.fm
       /\ panic' = (a.panic \/ r.c.panic)
  /\ oloc' = [oloc EXCEPT ![f] = NoFile]
  /\ last' = [op |-> "close", file |-> f]
  /\ UNCHANGED <<nwrites, DenyRest>>
  /\ UNCHANGED <<cacheVars, dirVars>>

\* inode_write_at through the opener f.  denied: deny_write_cnt was above 0
\* at the call; same: data, length, block pointers, inode table, sectors
\* and free map are as the call found them.
FileWrite(f, offset, size) ==
  /\ ~panic
  /\ oloc[f].open
  /\ nwrites < DenyMaxWrites
  /\ \E k \in {HandleIdx(open_inodes, DenyInumber)} :
     \E h \in {open_inodes[k]} :
     \E c \in {Ctx(DenyInumber, h.data)} :
     \E r \in {inode_write_at(c, h.deny_write_cnt, WriteBuf(nwrites + 1, size), size, offset)} :
       /\ open_inodes' = [open_inodes EXCEPT ![k].data = r.c.data]
       /\ itable' = r.c.it
       /\ sec' = r.c.sec
       /\ free_map' = r.c.fm
       /\ panic' = r.c.panic
       /\ last' = [op |-> "write", file |-> f, denied |-> h.deny_write_cnt > 0,
                   ret |-> r.ret, same |-> r.c = c]
  /\ nwrites' = nwrites + 1
  /\ UNCHANGED <<oloc, DenyRest>>
  /\ UNCHANGED <<cacheVars, dirVars>>

DenyNext ==
  \/ \E f \in Files : FileOpen(f)
  \/ \E f \in Files : FileDenyWrite(f)
  \/ \E f \in Files : FileAllowWrite(f)
  \/ \E f \in Files : FileClose(f)
  \/ \E f \in Files, offset \in DenyOffsets, size \in 1 .. MaxIO : FileWrite(f, offset, size)

SpecDeny == DenyInit /\ [][DenyNext]_vars

\* C20: while deny_write_cnt is above 0, inode_write_at through any opener
\* returns 0 and changes neither the data, the length, the block pointers
\* nor the free map; deny_write_cnt stays between 0 and open_cnt.
C20_DenyWrite ==
  /\ \A k \in 1 .. Len(open_inodes) :
       /\ 0 <= open_inodes[k].deny_write_cnt
       /\ open_inodes[k].deny_write_cnt <= open_inodes[k].open_cnt
  /\ (last.op = "write" /\ last.denied) => (last.ret = 0 /\ last.same)

\* An opener that did not deny writes itself has written while another
\* opener's denial was in force, to a file that an earlier write had filled.
C20_Witness ==
  /\ last.op = "write" /\ last.denied
  /\ ~oloc[last.file].deny_write
  /\ itable[DenyInumber].length > 0
  /\ \E k \in 1 .. Len(open_inodes) :
       open_inodes[k].open_cnt = 2 /\ open_inodes[k].deny_write_cnt = 1

(***************************************************************************)
(* Specification SpecFix: threads in byte_to_sector on one struct inode.   *)
(* A thread is at "arr_test" and "arr_alloc" inside the sector_fixup of    *)
(* inode->data.arr[arr_index], at "arr_load" where sector_to is read, at   *)
(* "disk_read", "disk_alloc" and "disk_write" inside sector_fixup_disk for *)
(* level i, at "table" before inode_write_to_table and at "done" after the *)
(* return.                                                                 *)
(***************************************************************************)
NumFixers == 2

Fixers == 1 .. NumFixers
FixFile == 1
\* One position in the direct, the single-indirect and the double-indirect
\* range.
FixPositions == {0, DIRECT_LIMIT * BLOCK_SECTOR_SIZE, SID_LIMIT * BLOCK_SECTOR_SIZE}
FixIdle == [pos |-> 0, index |-> 0, depth |-> 0, arr_index |-> 0, i |-> 0, sector_to |-> 0,
            to_sector |-> 0, ret |-> 0]

\* A formatted file system with one empty file, opened once; the threads
\* share the struct inode.
FixInit ==
  /\ itable = inode_create(FormattedTable, FixFile, 0)
  /\ open_inodes = inode_open(<<>>, inode_create(FormattedTable, FixFile, 0), FixFile)
  /\ sec = FormattedSectors
  /\ free_map = FormattedMap
  /\ linked = {FixFile}
  /\ panic = FALSE
  /\ nwrites = 0
  /\ wr = NoOp
  /\ last = NoOp
  /\ CacheIdle
  /\ DirIdle
  /\ opc = [t \in Fixers |-> "idle"]
  /\ oloc = [t \in Fixers |-> FixIdle]

FixRest == <<linked, panic, nwrites, wr, last>>

\* sector_index of level i in sector_fixup_depth.
sector_index(index, depth, i) ==
  (index \div Pow(NUM_PER_SECTOR, depth - 1 - i)) % NUM_PER_SECTOR

\* byte_to_sector (inode, pos) up to the call of sector_fixup on
\* inode->data.arr[arr_index].
FixBegin(t, pos) ==
  /\ opc[t] = "idle"
  /\ \E index0 \in {pos \div BLOCK_SECTOR_SIZE} :
     \E depth \in {IF index0 < DIRECT_LIMIT THEN 0 ELSE IF index0 < SID_LIMIT THEN 1 ELSE 2} :
     \E index \in {index0 - (IF depth = 0 THEN 0 ELSE IF depth = 1 THEN DIRECT_LIMIT
                             ELSE SID_LIMIT)} :
       oloc' = [oloc EXCEPT ![t] =
                  [FixIdle EXCEPT !.pos = pos, !.index = index, !.depth = depth,
                                  !.arr_index = (index \div Pow(NUM_PER_SECTOR, depth))
                                                + (IF depth = 0 THEN 0
                                                   ELSE IF depth = 1 THEN SID_INDEX
                                                   ELSE DID_INDEX)]]
  /\ opc' = [opc EXCEPT ![t] = "arr_test"]
  /\ UNCHANGED <<itable, sec, free_map, open_inodes, FixRest>>
  /\ UNCHANGED <<cacheVars, dirVars>>

\* sector_fixup (&inode->data.arr[arr_index]): if (*sector == 0)
FixArrTest(t) ==
  /\ opc[t] = "arr_test"
  /\ opc' = [opc EXCEPT ![t] = IF open_inodes[1].data.arr[oloc[t].arr_index] = 0
                               THEN "arr_alloc" ELSE "arr_load"]
  /\ UNCHANGED <<itable, sec, free_map, open_inodes, oloc, FixRest>>
  /\ UNCHANGED <<cacheVars, dirVars>>

\* sector_fixup: free_map_allocate (1, sector), which stores the sector
\* number through the pointer, and cache_sector_add.
FixArrAlloc(t) ==
  /\ opc[t] = "arr_alloc"
  /\ \E a \in {free_map_allocate(free_map, 1)} :
       /\ free_map' = a.fm
       /\ open_inodes' = IF a.ok
                         THEN [open_inodes EXCEPT ![1].data.arr[oloc[t].arr_index] = a.sector]
                         ELSE open_inodes
       /\ sec' = IF a.ok THEN [sec EXCEPT ![a.sector] = ZeroSector] ELSE sec
       /\ oloc' = [oloc EXCEPT ![t].ret = IF a.ok THEN @ ELSE SECTOR_ERROR]
       /\ opc' = [opc EXCEPT ![t] = IF a.ok THEN "arr_load" ELSE "done"]
  /\ UNCHANGED <<itable, FixRest>>
  /\ UNCHANGED <<cacheVars, dirVars>>

\* sector_fixup_depth: sector_to = inode->data.arr[arr_index]
FixArrLoad(t) ==
  /\ opc[t] = "arr_load"
  /\ oloc' = [oloc EXCEPT ![t].sector_to = open_inodes[1].data.arr[oloc[t].arr_index],
                          ![t].i = 0]
  /\ opc' = [opc EXCEPT ![t] = IF oloc[t].depth = 0 THEN "table" ELSE "disk_read"]
  /\ UNCHANGED <<itable, sec, free_map, open_inodes, FixRest>>
  /\ UNCHANGED <<cacheVars, dirVars>>

\* sector_fixup_disk: cache_sector_read of the index entry and the test of
\* sector_fixup on the copy.
FixDiskRead(t) ==
  /\ opc[t] = "disk_read"
  /\ \E to \in {sec[oloc[t].sector_to][sector_index(oloc[t].index, oloc[t].depth, oloc[t].i)]} :
       IF to = 0
       THEN /\ opc' = [opc EXCEPT ![t] = "disk_alloc"]
            /\ UNCHANGED oloc
       ELSE /\ oloc' = [oloc EXCEPT ![t].sector_to = to, ![t].i = @ + 1]
            /\ opc' = [opc EXCEPT ![t] = IF oloc[t].i + 1 = oloc[t].depth THEN "table"
                                         ELSE "disk_read"]
  /\ UNCHANGED <<itable, sec, free_map, open_inodes, FixRest>>
  /\ UNCHANGED <<cacheVars, dirVars>>

\* sector_fixup on the copy: free_map_allocate and cache_sector_add.
FixDiskAlloc(t) ==
  /\ opc[t] = "disk_alloc"
  /\ \E a \in {free_map_allocate(free_map, 1)} :
       /\ free_map' = a.fm
       /\ sec' = IF a.ok THEN [sec EXCEPT ![a.sector] = ZeroSector] ELSE sec
       /\ oloc' = [oloc EXCEPT ![t].to_sector = a.sector,
                               ![t].ret = IF a.ok THEN @ ELSE SECTOR_ERROR]
       /\ opc' = [opc EXCEPT ![t] = IF a.ok THEN "disk_write" ELSE "done"]
  /\ UNCHANGED <<itable, open_inodes, FixRest>>
  /\ UNCHANGED <<cacheVars, dirVars>>

\* sector_fixup_disk: cache_sector_write of the new sector number into the
\* index sector, and the next level.
FixDiskWrite(t) ==
  /\ opc[t] = "disk_write"
  /\ sec' = [sec EXCEPT ![oloc[t].sector_to]
                           [sector_index(oloc[t].index, oloc[t].depth, oloc[t].i)] =
                          oloc[t].to_sector]
  /\ oloc' = [oloc EXCEPT ![t].sector_to = oloc[t].to_sector, ![t].i = @ + 1]
  /\ opc' = [opc EXCEPT ![t] = IF oloc[t].i + 1 = oloc[t].depth THEN "table" ELSE "disk_read"]
  /\ UNCHANGED <<itable, free_map, open_inodes, FixRest>>
  /\ UNCHANGED <<cacheVars, dirVars>>

\* sector_fixup_depth: inode_write_to_table and the return of sector_to.
FixTable(t) ==
  /\ opc[t] = "table"
  /\ itable' = [itable EXCEPT ![FixFile] = open_inodes[1].data]
  /\ oloc' = [oloc EXCEPT ![t].ret = oloc[t].sector_to]
  /\ opc' = [opc EXCEPT ![t] = "done"]
  /\ UNCHANGED <<sec, free_map, open_inodes, FixRest>>
  /\ UNCHANGED <<cacheVars, dirVars>>

FixNext ==
  \/ \E t \in Fixers, pos \in FixPositions : FixBegin(t, pos)
  \/ \E t \in Fixers : FixArrTest(t)
  \/ \E t \in Fixers : FixArrAlloc(t)
  \/ \E t \in Fixers : FixArrLoad(t)
  \/ \E t \in Fixers : FixDiskRead(t)
  \/ \E t \in Fixers : FixDiskAlloc(t)
  \/ \E t \in Fixers : FixDiskWrite(t)
  \/ \E t \in Fixers : FixTable(t)

SpecFix == FixInit /\ [][FixNext]_vars

\* C21: two threads that write to the same unallocated block index of one
\* inode end with one sector for that index and for each index entry above
\* it: both get the same sector from byte_to_sector, and no sector is
\* marked used without being referenced by the inode.
C21_OneSectorPerIndex ==
  (\A t \in Fixers : opc[t] = "done" /\ oloc[t].ret # SECTOR_ERROR)
    => /\ \A t, u \in Fixers : oloc[t].pos = oloc[u].pos => oloc[t].ret = oloc[u].ret
       /\ NoLeak

(***************************************************************************)
(* Specification SpecAlloc: threads in free_map_allocate and               *)
(* free_map_release.  free_map_allocate takes no lock (DEBUG_FREEMAP_LOCK  *)
(* is initialised and never acquired), and bitmap_scan_and_flip tests the  *)
(* bits and then sets them: a thread is at "flip" between the two.         *)
(***************************************************************************)
NumAllocators == 2
AllocOps == 2                \* free_map_allocate calls of one thread
MaxCnt == 2                  \* largest cnt of one call

Allocators == 1 .. NumAllocators
AllocIdle == [cnt |-> 0, sector |-> BITMAP_ERROR, got |-> {}, calls |-> 0, ok |-> TRUE]

\* filesys_init on a formatted device; no thread is in a free-map call.
AllocInit ==
  /\ itable = FormattedTable
  /\ sec = FormattedSectors
  /\ free_map = FormattedMap
  /\ open_inodes = <<>>
  /\ linked = {}
  /\ panic = FALSE
  /\ nwrites = 0
  /\ wr = NoOp
  /\ last = NoOp
  /\ cache_entries = <<>>
  /\ cache_hash = {}
  /\ cache_closed_hash = {}
  /\ cache_lock = NoThread
  /\ evict_lock = NoThread
  /\ cur_index = 0
  /\ list_ext = <<[sector |-> SECTOR_ERROR, dirty |-> FALSE]>>
  /\ dev = <<>>
  /\ pc = <<>>
  /\ loc = <<>>
  /\ nops = <<>>
  /\ done = FALSE
  /\ written = <<>>
  /\ DirIdle
  /\ opc = [t \in Allocators |-> "idle"]
  /\ oloc = [t \in Allocators |-> AllocIdle]

AllocRest == <<itable, sec, open_inodes, linked, nwrites, wr, last>>
AllocCache == <<cache_entries, cache_hash, cache_closed_hash, cache_lock, evict_lock,
                cur_index, dev, pc, loc, nops, done, written>>

\* free_map_allocate (cnt, &sector): the bitmap_scan of bitmap_scan_and_flip.
\* With no run of cnt clear bits the call returns false at once.
AllocScan(t, cnt) ==
  /\ opc[t] = "idle"
  /\ ~panic
  /\ oloc[t].calls < AllocOps
  /\ \E s \in {bitmap_scan(free_map, cnt)} :
       /\ oloc' = [oloc EXCEPT ![t].cnt = cnt, ![t].sector = s, ![t].calls = @ + 1,
                               ![t].ok = (s # BITMAP_ERROR)]
       /\ opc' = [opc EXCEPT ![t] = IF s = BITMAP_ERROR THEN "idle" ELSE "flip"]
  /\ UNCHANGED <<free_map, list_ext, panic, AllocRest, AllocCache>>
  /\ UNCHANGED dirVars

\* The bitmap_set_multiple of bitmap_scan_and_flip, *sectorp = sector,
\* cache_sector_dirty_external and the return of true.
AllocFlip(t) ==
  /\ opc[t] = "flip"
  /\ free_map' = [x \in DOMAIN free_map |->
                    IF x >= oloc[t].sector /\ x < oloc[t].sector + oloc[t].cnt THEN TRUE
                    ELSE free_map[x]]
  /\ list_ext' = cache_sector_dirty_external(list_ext, INODE_TABLE_SECTORS)
  /\ oloc' = [oloc EXCEPT ![t].got = @ \cup (oloc[t].sector .. oloc[t].sector + oloc[t].cnt - 1)]
  /\ opc' = [opc EXCEPT ![t] = "idle"]
  /\ UNCHANGED <<panic, AllocRest, AllocCache>>
  /\ UNCHANGED dirVars

\* free_map_release (sector, 1) of a sector the thread was given.
AllocRelease(t, sector) ==
  /\ opc[t] = "idle"
  /\ ~panic
  /\ sector \in oloc[t].got
  /\ \E r \in {free_map_release(free_map, sector, 1)} :
       /\ panic' = ~r.ok
       /\ free_map' = IF r.ok THEN r.fm ELSE free_map
       /\ list_ext' = IF r.ok THEN cache_sector_dirty_external(list_ext, INODE_TABLE_SECTORS)
                      ELSE list_ext
  /\ oloc' = [oloc EXCEPT ![t].got = @ \ {sector}]
  /\ UNCHANGED <<opc, AllocRest, AllocCache>>
  /\ UNCHANGED dirVars

AllocNext ==
  \/ \E t \in Allocators, cnt \in 1 .. MaxCnt : AllocScan(t, cnt)
  \/ \E t \in Allocators : AllocFlip(t)
  \/ \E t \in Allocators, sector \in Sectors : AllocRelease(t, sector)

SpecAlloc == AllocInit /\ [][AllocNext]_vars

\* C34: free_map_allocate never returns a sector that is currently allocated
\* to another caller, also when calls run concurrently: the sectors two
\* threads were given and have not released are disjoint.
C34_NoSharedSector ==
  \A t \in Allocators, u \in Allocators : t # u => oloc[t].got \cap oloc[u].got = {}

\* The part of C34 about one call: a call that returns true was given cnt
\* sectors behind the reserved region, never sector 0, and they are marked
\* used when it returns; a call that fails changes no bit.
C34_RangeBehindReserved ==
  [][\A t \in Allocators :
       /\ (opc[t] = "flip" /\ opc'[t] = "idle")
            => \A s \in oloc[t].sector .. oloc[t].sector + oloc[t].cnt - 1 :
                 s \in PoolSecs /\ s # 0 /\ free_map'[s]
       /\ (opc[t] = "idle" /\ oloc'[t].calls # oloc[t].calls /\ ~oloc'[t].ok)
            => free_map' = free_map]_vars

(***************************************************************************)
(* Specification SpecInum: threads in inode_assign_inumber, inode_create   *)
(* and inode_release_inumber.  The field inumber_lock of last is the       *)
(* holder of the lock inumber_lock.  A thread in inode_assign_inumber is   *)
(* at "lock" before lock_acquire for entry idx (or at the end of the       *)
(* loops), at "read" before cache_sector_read and at "test" before the     *)
(* test of disk_inode.in_use.                                              *)
(***************************************************************************)
NumAssigners == 2
InumOps == 2                 \* inode_assign_inumber calls of one thread
MaxLength == 1               \* largest length given to inode_create

Assigners == 1 .. NumAssigners
NumInums == INODE_TABLE_SECTORS * INODES_PER_SECTOR
AssignIdle == [idx |-> 0, disk_inode |-> ZeroInode, got |-> {}, calls |-> 0, ret |-> TRUE,
               alone |-> TRUE]

\* A formatted file system: the root directory has inumber 0.
InumInit ==
  /\ itable = FormattedTable
  /\ sec = FormattedSectors
  /\ free_map = FormattedMap
  /\ open_inodes = <<>>
  /\ linked = {}
  /\ panic = FALSE
  /\ nwrites = 0
  /\ wr = NoOp
  /\ last = [op |-> "inum", inumber_lock |-> NoThread]
  /\ CacheIdle
  /\ DirIdle
  /\ opc = [t \in Assigners |-> "idle"]
  /\ oloc = [t \in Assigners |-> AssignIdle]

InumRest == <<sec, free_map, open_inodes, linked, panic, nwrites, wr>>

\* The locals of the threads after thread t has written the inode table: a
\* thread that is in inode_assign_inumber is no longer alone.
Disturb(t, l) ==
  [u \in Assigners |-> IF u # t /\ opc[u] # "idle" THEN [l[u] EXCEPT !.alone = FALSE] ELSE l[u]]

\* inode_assign_inumber (&inumber): i = 0, j = 0
AssignBegin(t) ==
  /\ opc[t] = "idle"
  /\ oloc[t].calls < InumOps
  /\ oloc' = [oloc EXCEPT ![t].idx = 0, ![t].calls = @ + 1, ![t].alone = TRUE]
  /\ opc' = [opc EXCEPT ![t] = "lock"]
  /\ UNCHANGED <<itable, last, InumRest>>
  /\ UNCHANGED <<cacheVars, dirVars>>

\* The same without inumber_lock.
AssignLock_free(t) ==
  /\ opc[t] = "lock"
  /\ IF oloc[t].idx = NumInums
     THEN /\ oloc' = [oloc EXCEPT ![t].ret = FALSE]
          /\ opc' = [opc EXCEPT ![t] = "idle"]
     ELSE /\ opc' = [opc EXCEPT ![t] = "read"]
          /\ oloc' = oloc
  /\ UNCHANGED <<itable, last, InumRest>>
  /\ UNCHANGED <<cacheVars, dirVars>>

\* The loop conditions and lock_acquire (&inumber_lock); after the last
\* entry, return false.
AssignLock(t) ==
  /\ opc[t] = "lock"
  /\ IF oloc[t].idx = NumInums
     THEN /\ oloc' = [oloc EXCEPT ![t].ret = FALSE]
          /\ opc' = [opc EXCEPT ![t] = "idle"]
          /\ last' = last
     ELSE /\ last.inumber_lock = NoThread
          /\ last' = [last EXCEPT !.inumber_lock = t]
          /\ opc' = [opc EXCEPT ![t] = "read"]
          /\ oloc' = oloc
  /\ UNCHANGED <<itable, InumRest>>
  /\ UNCHANGED <<cacheVars, dirVars>>

\* cache_sector_read (i, &disk_inode, sizeof disk_inode, j * sizeof disk_inode)
AssignRead(t) ==
  /\ opc[t] = "read"
  /\ oloc' = [oloc EXCEPT ![t].disk_inode = itable[oloc[t].idx]]
  /\ opc' = [opc EXCEPT ![t] = "test"]
  /\ UNCHANGED <<itable, last, InumRest>>
  /\ UNCHANGED <<cacheVars, dirVars>>

\* if (!disk_inode.in_use): in_use = true, cache_sector_write, lock_release,
\* return true; otherwise lock_release and the next entry.
AssignTest(t) ==
  /\ opc[t] = "test"
  /\ last' = [last EXCEPT !.inumber_lock = IF @ = t THEN NoThread ELSE @]
  /\ IF ~oloc[t].disk_inode.in_use
     THEN /\ itable' = [itable EXCEPT ![oloc[t].idx] =
                          [oloc[t].disk_inode EXCEPT !.in_use = TRUE]]
          /\ oloc' = Disturb(t, [oloc EXCEPT ![t].got = @ \cup {oloc[t].idx},
                                             ![t].ret = TRUE])
          /\ opc' = [opc EXCEPT ![t] = "idle"]
     ELSE /\ itable' = itable
          /\ oloc' = [oloc EXCEPT ![t].idx = @ + 1]
          /\ opc' = [opc EXCEPT ![t] = "lock"]
  /\ UNCHANGED InumRest
  /\ UNCHANGED <<cacheVars, dirVars>>

\* inode_create (inumber, length) by the thread that was given the inumber.
InumCreate(t, inumber, length) ==
  /\ opc[t] = "idle"
  /\ inumber \in oloc[t].got
  /\ itable[inumber].length # length
  /\ itable' = inode_create(itable, inumber, length)
  /\ oloc' = Disturb(t, oloc)
  /\ UNCHANGED <<opc, last, InumRest>>
  /\ UNCHANGED <<cacheVars, dirVars>>

\* inode_release_inumber (inumber) by the thread that was given the inumber.
InumRelease(t, inumber) ==
  /\ opc[t] = "idle"
  /\ inumber \in oloc[t].got
  /\ itable' = inode_release_inumber(itable, inumber)
  /\ oloc' = Disturb(t, [oloc EXCEPT ![t].got = @ \ {inumber}])
  /\ UNCHANGED <<opc, last, InumRest>>
  /\ UNCHANGED <<cacheVars, dirVars>>

InumNext ==
  \/ \E t \in Assigners : AssignBegin(t)
  \/ \E t \in Assigners : AssignLock(t)
  \/ \E t \in Assigners : AssignRead(t)
  \/ \E t \in Assigners : AssignTest(t)
  \/ \E t \in Assigners, inumber \in Inums, length \in 0 .. MaxLength :
       InumCreate(t, inumber, length)
  \/ \E t \in Assigners, inumber \in Inums : InumRelease(t, inumber)

SpecInum == InumInit /\ [][InumNext]_vars

\* Thread t returns from inode_assign_inumber in this step.
AssignReturns(t) == opc[t] \in {"lock", "test"} /\ opc'[t] = "idle"

RelWrites == 3               \* byte_to_sector calls before the remove
Closer == 1
RelPositions == {0, DIRECT_LIMIT * BLOCK_SECTOR_SIZE, (DIRECT_LIMIT + 1) * BLOCK_SECTOR_SIZE,
                 SID_LIMIT * BLOCK_SECTOR_SIZE, (SID_LIMIT + 1) * BLOCK_SECTOR_SIZE}
RelIdle == [inode |-> NoOp, refs |-> {}, i |-> 0, stack |-> <<>>, writes |-> 0]

RelInit ==
  /\ itable = inode_create(FormattedTable, FixFile, 0)
  /\ open_inodes = inode_open(<<>>, inode_create(FormattedTable, FixFile, 0), FixFile)
  /\ sec = FormattedSectors
  /\ free_map = FormattedMap
  /\ linked = {FixFile}
  /\ panic = FALSE
  /\ nwrites = 0
  /\ wr = NoOp
  /\ last = NoOp
  /\ CacheIdle
  /\ DirIdle
  /\ opc = [t \in {Closer} |-> "idle"]
  /\ oloc = [t \in {Closer} |-> RelIdle]

RelRest == <<linked, nwrites, wr, last>>

\* The depth of the tree under arr[i].
ArrDepth(i) == IF i < SID_INDEX THEN 0 ELSE IF i < DID_INDEX THEN 1 ELSE 2

\* byte_to_sector (inode, pos) for a write, on the open inode.
RelFixup(t, pos) ==
  /\ opc[t] = "idle"
  /\ oloc[t].writes < RelWrites
  /\ Len(open_inodes) = 1
  /\ ~open_inodes[1].removed
  /\ \E r \in {byte_to_sector(Ctx(FixFile, open_inodes[1].data), pos)} :
       /\ r.sector # SECTOR_ERROR
       /\ itable' = r.c.it
       /\ sec' = r.c.sec
       /\ free_map' = r.c.fm
       /\ panic' = r.c.panic
       /\ open_inodes' = [open_inodes EXCEPT ![1].data = r.c.data]
  /\ oloc' = [oloc EXCEPT ![t].writes = @ + 1]
  /\ UNCHANGED <<opc, RelRest>>
  /\ UNCHANGED <<cacheVars, dirVars>>

\* inode_remove (inode)
RelRemove(t) ==
  /\ opc[t] = "idle"
  /\ Len(open_inodes) = 1
  /\ ~open_inodes[1].removed
  /\ open_inodes' = inode_remove(open_inodes, 1)
  /\ UNCHANGED <<itable, sec, free_map, panic, opc, oloc, RelRest>>
  /\ UNCHANGED <<cacheVars, dirVars>>

\* inode_close (inode) of the removed inode: --open_cnt == 0, list_remove.
RelClose(t) ==
  /\ opc[t] = "idle"
  /\ Len(open_inodes) = 1
  /\ open_inodes[1].removed
  /\ open_inodes[1].open_cnt - 1 = 0
  /\ oloc' = [oloc EXCEPT ![t].inode = open_inodes[1], ![t].i = 0, ![t].stack = <<>>,
                          ![t].refs = Refs(open_inodes[1].data, sec)]
  /\ open_inodes' = RemoveAt(open_inodes, 1)
  /\ opc' = [opc EXCEPT ![t] = "inumber"]
  /\ UNCHANGED <<itable, sec, free_map, panic, RelRest>>
  /\ UNCHANGED <<cacheVars, dirVars>>

\* inode_release_inumber (inode->inumber)
RelInumber(t) ==
  /\ opc[t] = "inumber"
  /\ itable' = inode_release_inumber(itable, oloc[t].inode.inumber)
  /\ opc' = [opc EXCEPT ![t] = "walk"]
  /\ UNCHANGED <<sec, free_map, open_inodes, panic, oloc, RelRest>>
  /\ UNCHANGED <<cacheVars, dirVars>>

\* The variables after sector_deallocate (sector), with the thread's locals l
\* and position p.
RelDeallocate(t, sector, l, p) ==
  \E c \in {sector_deallocate(Ctx(oloc[t].inode.inumber, oloc[t].inode.data), sector)} :
    /\ itable' = c.it
    /\ sec' = c.sec
    /\ free_map' = c.fm
    /\ panic' = c.panic
    /\ oloc' = [oloc EXCEPT ![t] = l]
    /\ opc' = [opc EXCEPT ![t] = p]

\* inode_release_sectors: sector_deallocate_disk (inode->data.arr[i], depth)
\* up to its loop, or all of it when the sector is 0 or a data sector.
RelArr(t) ==
  /\ opc[t] = "walk"
  /\ oloc[t].stack = <<>>
  /\ IF oloc[t].i >= MAX_INDEX
     THEN /\ opc' = [opc EXCEPT ![t] = "free"]
          /\ UNCHANGED <<itable, sec, free_map, panic, oloc>>
     ELSE \E from_sector \in {oloc[t].inode.data.arr[oloc[t].i]} :
            IF from_sector = 0
            THEN /\ oloc' = [oloc EXCEPT ![t].i = @ + 1]
                 /\ UNCHANGED <<itable, sec, free_map, panic, opc>>
            ELSE IF ArrDepth(oloc[t].i) = 0
            THEN RelDeallocate(t, from_sector, [oloc[t] EXCEPT !.i = @ + 1], "walk")
            ELSE /\ oloc' = [oloc EXCEPT ![t].stack =
                               <<[from_sector |-> from_sector,
                                  depth |-> ArrDepth(oloc[t].i) - 1, j |-> 0]>>]
                 /\ UNCHANGED <<itable, sec, free_map, panic, opc>>
  /\ UNCHANGED <<open_inodes, RelRest>>
  /\ UNCHANGED <<cacheVars, dirVars>>

\* The loop of sector_deallocate_disk on the index sector on top of the
\* stack: cache_sector_read of entry j and sector_deallocate_disk
\* (to_sector, depth) up to its loop; after the last entry
\* sector_deallocate (from_sector) and the return.
RelEntry(t) ==
  /\ opc[t] = "walk"
  /\ oloc[t].stack # <<>>
  /\ \E f \in {oloc[t].stack[Len(oloc[t].stack)]} :
     \E below \in {SubSeq(oloc[t].stack, 1, Len(oloc[t].stack) - 1)} :
       IF f.j >= NUM_PER_SECTOR
       THEN RelDeallocate(t, f.from_sector,
                          [oloc[t] EXCEPT !.stack = below,
                                          !.i = IF below = <<>> THEN @ + 1 ELSE @], "walk")
       ELSE \E to_sector \in {cache_sector_read(Ctx(oloc[t].inode.inumber, oloc[t].inode.data),
                                                f.from_sector, f.j)} :
            \E next \in {Append(below, [f EXCEPT !.j = @ + 1])} :
              IF to_sector = 0
              THEN /\ oloc' = [oloc EXCEPT ![t].stack = next]
                   /\ UNCHANGED <<itable, sec, free_map, panic, opc>>
              ELSE IF f.depth = 0
              THEN RelDeallocate(t, to_sector, [oloc[t] EXCEPT !.stack = next], "walk")
              ELSE /\ oloc' = [oloc EXCEPT ![t].stack =
                                 Append(next, [from_sector |-> to_sector,
                                               depth |-> f.depth - 1, j |-> 0])]
                   /\ UNCHANGED <<itable, sec, free_map, panic, opc>>
  /\ UNCHANGED <<open_inodes, RelRest>>
  /\ UNCHANGED <<cacheVars, dirVars>>

\* free (inode)
RelFree(t) ==
  /\ opc[t] = "free"
  /\ opc' = [opc EXCEPT ![t] = "done"]
  /\ UNCHANGED <<itable, sec, free_map, open_inodes, panic, oloc, RelRest>>
  /\ UNCHANGED <<cacheVars, dirVars>>

RelNext ==
  \/ \E pos \in RelPositions : RelFixup(Closer, pos)
  \/ RelRemove(Closer)
  \/ RelClose(Closer)
  \/ RelInumber(Closer)
  \/ RelArr(Closer)
  \/ RelEntry(Closer)
  \/ RelFree(Closer)

SpecRelease == RelInit /\ [][RelNext]_vars

\* The sectors the inode being closed referred to when the close began, and
\* those stored below position q of it.
ClosingRefs == oloc[Closer].refs
Below(q) == {p \in ClosingRefs : Len(p[1]) > Len(q) /\ SubSeq(p[1], 1, Len(q)) = q}

\* The sector is returned to the free map in this step.
Returned(s) == free_map[s] /\ ~free_map'[s]

\* C36, the order of the sectors: when a sector of the inode is returned to
\* the free map, every sector stored below it has been returned before.
C36_DataBeforeIndex ==
  [][opc[Closer] = "walk" =>
       \A p \in ClosingRefs : Returned(p[2]) => \A b \in Below(p[1]) : ~free_map[b[2]]]_vars

\* C36: on the last close of a removed inode every data sector is returned
\* to the free map before the index sector that points to it, and the
\* inumber is released only after all sectors have been returned.
C36_ReleaseOrder ==
  [][/\ opc[Closer] = "walk" =>
          \A p \in ClosingRefs : Returned(p[2]) => \A b \in Below(p[1]) : ~free_map[b[2]]
     /\ (opc[Closer] # "idle" /\ itable[FixFile].in_use /\ ~itable'[FixFile].in_use)
          => \A p \in ClosingRefs : ~free_map'[p[2]]]_vars

(***************************************************************************)
(* Specification SpecFd: the file-descriptor system calls of one thread.   *)
(* fd_list is the thread's list of struct fd_struct, in the order of the   *)
(* list; an entry is the fd and the position of its file.  A thread that   *)
(* called thread_exit is at "exited" and has no entry left.                *)
(***************************************************************************)
MaxFds == 3                  \* longest fd_list
MaxPosition == 1             \* largest position given to seek
FdCalls == 5                 \* system calls of the thread
MinFd == 2                   \* the first fd open hands out
SysT == 1
Fds == MinFd .. MinFd + MaxFds
\* NULL, where a struct fd_struct * is expected: no position in the list.
NoFd == 0

FdInit ==
  /\ itable = FormattedTable
  /\ sec = FormattedSectors
  /\ free_map = FormattedMap
  /\ open_inodes = <<>>
  /\ linked = {}
  /\ panic = FALSE
  /\ nwrites = 0
  /\ wr = NoOp
  /\ last = NoOp
  /\ CacheIdle
  /\ DirIdle
  /\ opc = [t \in {SysT} |-> "run"]
  /\ oloc = [t \in {SysT} |-> [fd_list |-> <<>>, calls |-> 0]]

\* list_search_first (list, pred, aux): the position of the first element
\* that satisfies pred, Len + 1 (list_end) if there is none; sat is the set
\* of the positions whose element satisfies pred.
list_search_first(list, sat) ==
  IF sat = {} THEN Len(list) + 1 ELSE CHOOSE k \in sat : \A j \in sat : k <= j

\* fd_gap: the fd of the element is not the successor of the one before it.
fd_gap(list, k) == IF k = 1 THEN list[k].fd > MinFd ELSE list[k].fd > list[k - 1].fd + 1

\* find_fd_struct (fd): the outer test is the only one that guards the
\* return of NULL, so the first element with an fd >= fd is returned.
find_fd_struct(list, fd) ==
  LET fd_geq == {k \in 1 .. Len(list) : list[k].fd >= fd}
  IN Bind(list_search_first(list, fd_geq), LAMBDA e :
       IF e = Len(list) + 1
       THEN (IF e = Len(list) + 1 \/ list[e].fd # fd THEN NoFd ELSE e)
       ELSE e)

\* The elements of list before position e, elem, and those from e on.
list_insert(list, e, elem) ==
  SubSeq(list, 1, e - 1) \o <<elem>> \o SubSeq(list, e, Len(list))

FdStep(t) ==
  /\ opc[t] = "run"
  /\ oloc[t].calls < FdCalls

FdRest == <<itable, sec, free_map, open_inodes, linked, panic, nwrites, wr>>

\* open (name) of a file that filesys_open finds.
SysOpen(t) ==
  /\ FdStep(t)
  /\ Len(oloc[t].fd_list) < MaxFds
  /\ \E e \in {list_search_first(oloc[t].fd_list,
                       {k \in 1 .. Len(oloc[t].fd_list) : fd_gap(oloc[t].fd_list, k)})} :
     \E fd \in {IF e = 1 THEN MinFd ELSE oloc[t].fd_list[e - 1].fd + 1} :
       /\ oloc' = [oloc EXCEPT ![t].fd_list = list_insert(@, e, [fd |-> fd, pos |-> 0]),
                               ![t].calls = @ + 1]
       /\ last' = [op |-> "open", fd |-> fd, ret |-> fd, before |-> oloc[t].fd_list]
  /\ UNCHANGED <<opc, FdRest>>
  /\ UNCHANGED <<cacheVars, dirVars>>

\* filesize (fd): file_length of the file, which is 0 here.
SysFilesize(t, fd) ==
  /\ FdStep(t)
  /\ \E s \in {find_fd_struct(oloc[t].fd_list, fd)} :
       last' = [op |-> "filesize", fd |-> fd, ret |-> IF s = NoFd THEN 0 - 1 ELSE 0,
                before |-> oloc[t].fd_list]
  /\ oloc' = [oloc EXCEPT ![t].calls = @ + 1]
  /\ UNCHANGED <<opc, FdRest>>
  /\ UNCHANGED <<cacheVars, dirVars>>

\* seek (fd, position)
SysSeek(t, fd, position) ==
  /\ FdStep(t)
  /\ \E s \in {find_fd_struct(oloc[t].fd_list, fd)} :
       oloc' = [oloc EXCEPT ![t].calls = @ + 1,
                            ![t].fd_list = IF s = NoFd THEN @
                                           ELSE [@ EXCEPT ![s].pos = position]]
  /\ last' = [op |-> "seek", fd |-> fd, ret |-> 0, before |-> oloc[t].fd_list]
  /\ UNCHANGED <<opc, FdRest>>
  /\ UNCHANGED <<cacheVars, dirVars>>

\* tell (fd): thread_exit, and with it close_all_files, when find_fd_struct
\* returns NULL.
SysTell(t, fd) ==
  /\ FdStep(t)
  /\ \E s \in {find_fd_struct(oloc[t].fd_list, fd)} :
       IF s = NoFd
       THEN /\ opc' = [opc EXCEPT ![t] = "exited"]
            /\ oloc' = [oloc EXCEPT ![t].calls = @ + 1, ![t].fd_list = <<>>]
            /\ last' = [op |-> "tell", fd |-> fd, ret |-> NoReturn, before |-> oloc[t].fd_list]
       ELSE /\ opc' = opc
            /\ oloc' = [oloc EXCEPT ![t].calls = @ + 1]
            /\ last' = [op |-> "tell", fd |-> fd, ret |-> oloc[t].fd_list[s].pos,
                        before |-> oloc[t].fd_list]
  /\ UNCHANGED FdRest
  /\ UNCHANGED <<cacheVars, dirVars>>

\* close (fd): free_fd_struct_file removes the entry from the list.
SysClose(t, fd) ==
  /\ FdStep(t)
  /\ \E s \in {find_fd_struct(oloc[t].fd_list, fd)} :
       IF s = NoFd
       THEN /\ opc' = [opc EXCEPT ![t] = "exited"]
            /\ oloc' = [oloc EXCEPT ![t].calls = @ + 1, ![t].fd_list = <<>>]
       ELSE /\ opc' = opc
            /\ oloc' = [oloc EXCEPT ![t].calls = @ + 1, ![t].fd_list = RemoveAt(@, s)]
  /\ last' = [op |-> "close", fd |-> fd, ret |-> 0, before |-> oloc[t].fd_list]
  /\ UNCHANGED FdRest
  /\ UNCHANGED <<cacheVars, dirVars>>

FdNext ==
  \/ SysOpen(SysT)
  \/ \E fd \in Fds : SysFilesize(SysT, fd)
  \/ \E fd \in Fds, position \in 0 .. MaxPosition : SysSeek(SysT, fd, position)
  \/ \E fd \in Fds : SysTell(SysT, fd)
  \/ \E fd \in Fds : SysClose(SysT, fd)

SpecFd == FdInit /\ [][FdNext]_vars

\* The fd is open in the list.
IsOpen(list, fd) == \E k \in 1 .. Len(list) : list[k].fd = fd

\* C40: a call on an fd that the thread has not open never acts on another
\* fd: tell and close terminate the caller, filesize returns -1 and seek
\* leaves every open file as it was.
C40_ExactFd ==
  [][(last'.op \in {"tell", "close", "filesize", "seek"} /\ oloc'[SysT].calls # oloc[SysT].calls
        /\ ~IsOpen(oloc[SysT].fd_list, last'.fd)) =>
       /\ last'.op \in {"tell", "close"} => opc'[SysT] = "exited"
       /\ last'.op = "filesize" => last'.ret = 0 - 1
       /\ last'.op \in {"filesize", "seek"} => oloc'[SysT].fd_list = oloc[SysT].fd_list]_vars

====
